---------------------------- MODULE Spec2Model ----------------------------
(***************************************************************************)
(* Model of the tournament arbiter of src-tauri/src/arbiter.rs.            *)
(*                                                                         *)
(* arbiter.rs carries two interleaved generations of run_tournament: the   *)
(* queue dispatcher (schedule_queue, JoinSet, spawn-failure tracking) and  *)
(* the older task-list dispatcher (skip of disabled engines, schedule      *)
(* state).  The model follows the queue dispatcher from pop to quit and    *)
(* places the blocks that exist only in the task-list generation at the    *)
(* point of the dispatch sequence where that generation has them: the      *)
(* disabled-engine check between taking the next game and acquiring the    *)
(* permit, and again in the worker before the Active update.               *)
(*                                                                         *)
(* play_game_static is abstracted to its suspension points (handshake,     *)
(* top of the move loop, awaiting bestmove) and to the values it returns.  *)
(***************************************************************************)
EXTENDS Integers, Sequences, FiniteSets, TLC

\* ---------------------------------------------------------------- bounds
NumEngines == 3
MaxRounds == 2
MaxAddedGames == 1
MaxShellCalls == 1
MaxInodes == 3
MaxResumes == 1
MaxEloGames == 8
MaxCalls == 3
MaxPipe == 1
MaxLines == 102
MaxMoves == 2
MaxOut == 2
MaxPlies == 5
MaxOpenings == 2

\* ------------------------------------------------------ program constants
ENGINE_SPAWN_FAILURE_LIMIT == 3
DefaultConcurrency == 4
RESIGN_SCORE == 1000
RESIGN_MOVES == 5
DRAW_SCORE == 5
DRAW_MOVES == 20
STDIN_CAPACITY == 100
BROADCAST_CAPACITY == 100
MOVE_BUFFER_MS == 5000
MAX_CAP_MS == 86400000
DRAW_MOVE_NUMBER == 40
REPETITION_LIMIT == 3
HALFMOVE_LIMIT == 100
EVENT_CAPACITY == 100

Engines == 0 .. (NumEngines - 1)

\* Ids a tournament can hand out: the initial schedule of the largest
\* configuration and the games added to it afterwards.
MaxPairings == (NumEngines * (NumEngines - 1)) \div 2
GameIds == 1 .. (MaxPairings * MaxRounds + MaxAddedGames)
Results == {"1-0", "0-1", "1/2-1/2"}
Inodes == 1 .. MaxInodes

\* Option<T>: None is the empty sequence, Some(x) the sequence <<x>>.
None == << >>
Some(x) == <<x>>

\* EngineConfig.id: engines 0 and 1 carry an identifier, later ones none.
EngineId(i) == IF i < 2 THEN Some(i) ELSE None
EngineIds == {i \in Engines : EngineId(i) # None}

VARIABLES
    config,              \* TournamentConfig: mode, games_count, swap_sides, concurrency
    schedule_queue,      \* VecDeque<ScheduleItem>
    pairing_states,      \* Vec<PairingState>
    remaining_rounds,    \* u32
    next_game_id,        \* usize
    disabled_engine_ids, \* HashSet of identifiers
    engine_spawn_failures, \* HashMap key -> u32, 0 for an absent key
    should_stop,
    is_paused,
    active_engines,      \* games whose two handles are in active_engines
    tourney_stats,       \* wins, losses, draws, total_games
    permits,             \* free permits of the semaphore
    join_set,            \* worker tasks: [game, pc]
    apc,                 \* position of run_tournament
    urr,                 \* the running update_remaining_rounds call, if any
    sched,               \* per game id, the schedule updates sent, in order
    errors,              \* TournamentError events sent
    credited,            \* per game id, the results passed to stats.update
    totalFails,          \* per engine, spawn failures ever counted
    dispatched,          \* per pairing, games popped from the queue
    dispatchedSince,     \* the same, since the last queue adjustment
    stoppedActive,       \* games that were running when stop() was called
    stoppedOpen,         \* games created and not yet terminal at that call
    spawnTried,          \* games for which an engine spawn was attempted
    spawnFailed,         \* games one of whose engines failed to spawn
    lastK,               \* the k of the most recent queue adjustment
    urrRepeat,           \* that adjustment repeated its k with no dispatch since
    shellCalls,          \* commands the shell has issued so far
    schedule_state,      \* Vec<ScheduledGame>: per game id, its entry if it has one
    files,               \* the directory: the inode behind <path> and <path>.tmp
    inodes,              \* per inode, the bytes it holds
    prior,               \* the run a resumed tournament continues, if any
    writeFailed,         \* a write of the snapshot has failed in this run
    engine,              \* one AsyncEngine: its child, its supervisor task, its channels
    chan,                \* one receiver of stdout_broadcast and the lines it has not read
    playing,             \* one play_game_static call, command by command
    adj,                 \* one play_game_static call, move by move: scores and positions
    held                 \* who holds which mutex, and how full the event channels are

vars == <<config, schedule_queue, pairing_states, remaining_rounds, next_game_id,
          disabled_engine_ids, engine_spawn_failures, should_stop, is_paused,
          active_engines, tourney_stats, permits, join_set, apc, urr, sched,
          errors, credited, totalFails, dispatched, dispatchedSince,
          stoppedActive, stoppedOpen, spawnTried, spawnFailed, lastK, urrRepeat, shellCalls,
          schedule_state, files, inodes, prior, writeFailed, engine, chan, playing,
          adj, held>>

\* ------------------------------------------------------------- helpers
Max(a, b) == IF a >= b THEN a ELSE b

\* generate_pairings: Match (0,1); Gauntlet (0,i); RoundRobin (i,j), i<j.
RECURSIVE GauntletPairs(_, _)
GauntletPairs(i, n) ==
    IF i >= n THEN << >> ELSE <<<<0, i>>>> \o GauntletPairs(i + 1, n)

RECURSIVE RoundRobinPairs(_, _, _)
RoundRobinPairs(i, j, n) ==
    IF i >= n THEN << >>
    ELSE IF j >= n THEN RoundRobinPairs(i + 1, i + 2, n)
    ELSE <<<<i, j>>>> \o RoundRobinPairs(i, j + 1, n)

generate_pairings(mode, n) ==
    CASE mode = "Match" -> IF n >= 2 THEN <<<<0, 1>>>> ELSE << >>
      [] mode = "Gauntlet" -> IF n >= 2 THEN GauntletPairs(1, n) ELSE << >>
      [] OTHER -> RoundRobinPairs(0, 1, n)

\* The cap without the lower limit of one.
ConcurrencyCapUnclamped(c) ==
    IF c = None THEN DefaultConcurrency ELSE c[1]

\* run_tournament: self.config.concurrency.unwrap_or(4).max(1)
ConcurrencyCap(c) ==
    Max(IF c = None THEN DefaultConcurrency ELSE c[1], 1)

\* make_schedule_item: colours are reversed on odd ordinals when swap_sides.
make_schedule_item(idx_a, idx_b, game_idx, game_id) ==
    LET swap == config.swap_sides /\ game_idx % 2 # 0
    IN [id |-> game_id, idx_a |-> idx_a, idx_b |-> idx_b, game_idx |-> game_idx,
        white |-> IF swap THEN idx_b ELSE idx_a,
        black |-> IF swap THEN idx_a ELSE idx_b]

\* schedule_item_to_game: the state and the optional result of an update.
ScheduledGame(state, result) ==
    [state |-> state, result |-> result]

is_engine_disabled(disabled_ids, engine_id) ==
    engine_id # None /\ engine_id[1] \in disabled_ids

\* forfeit_result awarding the game to the disabled side.
forfeit_result_reversed(white_disabled, black_disabled) ==
    CASE white_disabled /\ black_disabled -> <<"1/2-1/2 (forfeit)", Some("1/2-1/2")>>
      [] white_disabled /\ ~black_disabled -> <<"1-0 (forfeit)", Some("1-0")>>
      [] ~white_disabled /\ black_disabled -> <<"0-1 (forfeit)", Some("0-1")>>
      [] OTHER -> <<"*", None>>

\* forfeit_result: (display result, base result).
forfeit_result(white_disabled, black_disabled) ==
    CASE white_disabled /\ black_disabled -> <<"1/2-1/2 (forfeit)", Some("1/2-1/2")>>
      [] white_disabled /\ ~black_disabled -> <<"0-1 (forfeit)", Some("0-1")>>
      [] ~white_disabled /\ black_disabled -> <<"1-0 (forfeit)", Some("1-0")>>
      [] OTHER -> <<"*", None>>

\* TournamentStats::update leaving a draw out of total_games.
StatsUpdateDrawUncounted(stats, result, is_white_engine_a) ==
    CASE result = "1-0" ->
            IF is_white_engine_a
            THEN [stats EXCEPT !.wins = @ + 1, !.total_games = @ + 1]
            ELSE [stats EXCEPT !.losses = @ + 1, !.total_games = @ + 1]
      [] result = "0-1" ->
            IF is_white_engine_a
            THEN [stats EXCEPT !.losses = @ + 1, !.total_games = @ + 1]
            ELSE [stats EXCEPT !.wins = @ + 1, !.total_games = @ + 1]
      [] result = "1/2-1/2" ->
            [stats EXCEPT !.draws = @ + 1]
      [] OTHER -> stats

\* The values of elo_diff: 0.0 of a new record, the two clamped values, and
\* the estimate -400 * log10(1/p - 1) of the score fraction p = num / den,
\* kept as that fraction.
EloDefault == [kind |-> "default", num |-> 0, den |-> 1]
EloClamped(value) == [kind |-> "clamped", num |-> value, den |-> 1]
EloLog(num, den) == [kind |-> "log", num |-> num, den |-> den]

\* TournamentStats::default
NewStats ==
    [wins |-> 0, losses |-> 0, draws |-> 0, total_games |-> 0,
     elo_diff |-> EloDefault, error_margin |-> 0]

\* The boundary test with the boundaries themselves left to the estimate.
AtBoundaryStrict(score2, n2) == score2 < 0 \/ score2 > n2

\* p <= 0.0 || p >= 1.0, with p = score2 / n2.
AtBoundary(score2, n2) == score2 <= 0 \/ score2 >= n2

\* var_x = ex2 - p * p, times 4 * total_games^2:
\* ex2 = (wins + 0.25 * draws) / total_games and p = (wins + 0.5 * draws) / total_games.
VarX(stats) ==
    stats.total_games * (4 * stats.wins + stats.draws)
        - (2 * stats.wins + stats.draws) * (2 * stats.wins + stats.draws)

\* calculate_elo.  error_margin = 1.96 * sqrt(var_x / total_games) * slope is
\* kept as VarX, the one factor of its square that can be zero: the others,
\* 1.96, 1 / total_games and slope = 400 / (ln 10 * p * (1 - p)), are positive
\* and finite for 0 < p < 1.
calculate_elo(stats) ==
    IF stats.total_games = 0 THEN stats
    ELSE LET score2 == 2 * stats.wins + stats.draws
             n2 == 2 * stats.total_games
         IN IF AtBoundary(score2, n2)
            THEN [stats EXCEPT
                     !.elo_diff = IF score2 >= n2 THEN EloClamped(1000)
                                  ELSE IF score2 <= 0 THEN EloClamped(0 - 1000)
                                  ELSE @,
                     !.error_margin = 0]
            ELSE [stats EXCEPT !.elo_diff = EloLog(score2, n2),
                               !.error_margin = VarX(stats)]

\* TournamentStats::update: counters from engine A's viewpoint, then
\* calculate_elo.
StatsUpdate(stats, result, is_white_engine_a) ==
    CASE result = "1-0" ->
            calculate_elo(IF is_white_engine_a
                          THEN [stats EXCEPT !.wins = @ + 1, !.total_games = @ + 1]
                          ELSE [stats EXCEPT !.losses = @ + 1, !.total_games = @ + 1])
      [] result = "0-1" ->
            calculate_elo(IF is_white_engine_a
                          THEN [stats EXCEPT !.losses = @ + 1, !.total_games = @ + 1]
                          ELSE [stats EXCEPT !.wins = @ + 1, !.total_games = @ + 1])
      [] result = "1/2-1/2" ->
            calculate_elo([stats EXCEPT !.draws = @ + 1, !.total_games = @ + 1])
      [] OTHER -> stats

\* ---------------------------------------------------- play_game_static
Colors == {"White", "Black"}

Opponent(turn) == IF turn = "White" THEN "Black" ELSE "White"

\* The forfeit awarded to the side that failed to move.
ForfeitByMover(turn) == IF turn = "White" THEN "1-0" ELSE "0-1"

\* match turn { Color::White => "0-1", Color::Black => "1-0" }
ForfeitBy(turn) == IF turn = "White" THEN "0-1" ELSE "1-0"

\* match turn { Color::White => "1-0", Color::Black => "0-1" }
WinOf(turn) == IF turn = "White" THEN "1-0" ELSE "0-1"

Abs(x) == IF x < 0 THEN 0 - x ELSE x

\* move_score: the last score the engine reported before bestmove, if any.
AllScores == {None, Some(0 - 1500), Some(0), Some(100), Some(1500)}

\* The second word of the bestmove line: a move legal in the position, a
\* well-formed move that is not, the null move, a word that is no move, or
\* no second word at all (best_move_str stays empty).
Tokens == {"legal", "illegal", "0000", "unparseable", "missing"}

\* best_move_str.parse().unwrap_or_else(|_| Uci::from_ascii(b"0000").unwrap())
ParseUci(token) ==
    IF token \in {"unparseable", "missing"} THEN "0000" ELSE token

\* uci.to_move(b) is Ok for a move legal in the position only.
ToMoveOk(token) == ParseUci(token) = "legal"

\* The locals of play_game_static that decide the result.
NewPlay(turn) ==
    [turn |-> turn, consec_resign_moves |-> 0, consec_draw_moves |-> 0]

\* A task outside play_game_static has no such locals.
NoPlay == NewPlay("White")

\* if score.abs() > 1000 { consec_resign_moves += 1 } else { .. = 0 }
CountResign(n, score) ==
    IF score = None THEN n
    ELSE IF Abs(score[1]) > RESIGN_SCORE THEN n + 1 ELSE 0

\* if move_num >= 40 { if score.abs() <= 5 { += 1 } else { = 0 } } else { = 0 };
\* `late` stands for move_num >= 40.
CountDraw(n, score, late) ==
    IF score = None THEN n
    ELSE IF late /\ Abs(score[1]) <= DRAW_SCORE THEN n + 1 ELSE 0

\* The result of the resign adjudication: the side the score favours wins.
ResignResult(score, turn) ==
    IF score # None
    THEN (IF score[1] > 0 THEN WinOf(turn) ELSE ForfeitBy(turn))
    ELSE "1/2-1/2"

\* The checks after a bestmove line, in the order of the code: resign
\* adjudication, draw adjudication, then the move itself (`rep` stands for
\* the third repetition or the hundredth half move after it is played).
\* None when the game goes on.
BestmoveResult(play, score, token, late, rep) ==
    IF CountResign(play.consec_resign_moves, score) >= RESIGN_MOVES
    THEN Some(ResignResult(score, play.turn))
    ELSE IF CountDraw(play.consec_draw_moves, score, late) >= DRAW_MOVES
    THEN Some("1/2-1/2")
    ELSE IF ToMoveOk(token)
    THEN (IF rep THEN Some("1/2-1/2") ELSE None)
    ELSE Some(ForfeitBy(play.turn))

\* The counters after the adjudication checks of one bestmove.
Counted(play, score, late) ==
    [play EXCEPT !.consec_resign_moves = CountResign(@, score),
                 !.consec_draw_moves = CountDraw(@, score, late)]

\* pos.outcome() of a finished position: the side to move is mated or the
\* game is drawn.
Outcomes(turn) == {ForfeitBy(turn), "1/2-1/2"}

\* ------------------------------------------- update_remaining_rounds
PairKey(x) == <<x.idx_a, x.idx_b>>

\* pending_counts keyed by the colours of a game instead of its pairing.
PendingCountByColour(queue, key) ==
    Cardinality({i \in 1 .. Len(queue) : <<queue[i].white, queue[i].black>> = key})

\* pending_counts: queued items per pairing key.
PendingCount(queue, key) ==
    Cardinality({i \in 1 .. Len(queue) : PairKey(queue[i]) = key})

\* remove_needed: an entry only for a pairing holding more than k queued games.
RemoveNeeded(queue, pstates, k) ==
    LET over == {p \in 1 .. Len(pstates) :
                    PendingCount(queue, PairKey(pstates[p])) > k}
    IN [key \in {PairKey(pstates[p]) : p \in over} |->
            PendingCount(queue, key) - k]

\* queue_vec.iter().rev(): walk from the back, taking items while needed > 0.
RECURSIVE RemoveScan(_, _, _, _, _)
RemoveScan(q, i, needed, ids, updates) ==
    IF i = 0 THEN [ids |-> ids, updates |-> updates]
    ELSE LET key == PairKey(q[i])
         IN IF key \in DOMAIN needed /\ needed[key] > 0
            THEN RemoveScan(q, i - 1, [needed EXCEPT ![key] = @ - 1],
                            ids \cup {q[i].id},
                            Append(updates, [id |-> q[i].id, state |-> "Removed"]))
            ELSE RemoveScan(q, i - 1, needed, ids, updates)

\* A filter that drops nothing.
RetainAll(q, remove_ids) == q

\* queue_vec.into_iter().filter(|item| !remove_ids.contains(&item.id))
RECURSIVE Retain(_, _)
Retain(q, remove_ids) ==
    IF q = << >> THEN << >>
    ELSE IF Head(q).id \in remove_ids THEN Retain(Tail(q), remove_ids)
    ELSE <<Head(q)>> \o Retain(Tail(q), remove_ids)

\* The shrinking half: the retained queue and the Removed updates.
ShrinkQueue(queue, pstates, k) ==
    LET needed == RemoveNeeded(queue, pstates, k)
    IN IF DOMAIN needed = {}
       THEN [queue |-> queue, removed |-> << >>]
       ELSE LET r == RemoveScan(queue, Len(queue), needed, {}, << >>)
            IN [queue |-> Retain(queue, r.ids), removed |-> r.updates]

\* for _ in 0..add_count: next id, next ordinal, push_back.
RECURSIVE AddItems(_, _, _)
AddItems(acc, p, n) ==
    IF n = 0 THEN acc
    ELSE LET st == acc.pstates[p]
             game_id == acc.next_game_id + 1
             item == make_schedule_item(st.idx_a, st.idx_b, st.next_game_idx, game_id)
         IN AddItems([pstates |-> [acc.pstates EXCEPT ![p].next_game_idx = @ + 1],
                      queue |-> Append(acc.queue, item),
                      next_game_id |-> game_id,
                      pending |-> Append(acc.pending,
                                         [id |-> game_id, state |-> "Pending"])],
                     p, n - 1)

\* add_count that ignores the games already queued.
AddCountIgnoringQueued(current, k) == k

\* How many games a pairing holding `current` queued games receives.
AddCount(current, k) == IF current < k THEN k - current ELSE 0

\* The growing half: for state in pairing_states.iter_mut(), in order.
RECURSIVE GrowQueue(_, _, _, _)
GrowQueue(acc, base, p, k) ==
    IF p > Len(acc.pstates) THEN acc
    ELSE GrowQueue(AddItems(acc, p,
                            AddCount(PendingCount(base, PairKey(acc.pstates[p])), k)),
                   base, p + 1, k)

\* update_remaining_rounds under the queue, pairing and id locks.
UpdateQueue(queue, pstates, ngid, k) ==
    LET s == ShrinkQueue(queue, pstates, k)
        g == GrowQueue([pstates |-> pstates, queue |-> s.queue,
                        next_game_id |-> ngid, pending |-> << >>],
                       s.queue, 1, k)
    IN [queue |-> g.queue, pstates |-> g.pstates, next_game_id |-> g.next_game_id,
        out |-> s.removed \o g.pending]

PairIndex(pstates, key) ==
    CHOOSE p \in 1 .. Len(pstates) : PairKey(pstates[p]) = key

ZeroPairs == [p \in 1 .. Len(pairing_states) |-> 0]

\* Size of the schedule run_tournament starts with.
InitialGames == Len(pairing_states) * Max(config.games_count, 1)

\* ------------------------------------------------------------ AsyncEngine
\* AsyncEngine::spawn returned Ok: the child runs, the supervisor task is at
\* its select!, both channels are empty, is_alive is true.  pipe is what has
\* been written to the child's stdin and not read by it; calls, accepted,
\* written, result, deadAtSend and quitCalled record what the callers did and
\* saw.
NewEngine ==
    [child |-> "running", sup |-> "select", stdin_q |-> << >>, kill_q |-> 0,
     pipe |-> << >>, timers |-> 0, is_alive |-> TRUE,
     calls |-> 0, accepted |-> 0, written |-> 0, result |-> "",
     deadAtSend |-> FALSE, quitCalled |-> FALSE]

\* stdout_broadcast.subscribe(): a receiver that has nothing to read yet.
\* behind counts the lines sent since that it has not taken; keyAt is the
\* place of the readyok or bestmove line among them, 1 for the newest and 0
\* for none; got, lost and lagged tell what the receiver has met.
NewChan == [behind |-> 0, keyAt |-> 0, got |-> FALSE, lost |-> FALSE, lagged |-> FALSE]

\* The repetition keys the positions of a game may have; the start position
\* has the first.
Keys == 0 .. MaxPlies
StartKey == 0

\* The locals of a play_game_static call that has not started: cfg is
\* config.adjudication, play the counters of the adjudications and the side
\* to move, scores the move_score of every bestmove so far, moves_history the
\* moves played (the repetition key each led to, and whether it was a capture
\* or a pawn move), why what ended the game.
NewAdj ==
    [pc |-> "idle", cfg |-> None, play |-> NoPlay, scores |-> << >>,
     moves_history |-> << >>, start_halfmove |-> 0, halfmove_clock |-> 0,
     repetition_counts |-> [k \in Keys |-> 0], result |-> None, why |-> ""]

\* The tasks that take the tourney_stats and the next_game_id mutex: two
\* workers whose games end, and the shell's update_remaining_rounds call.
LockWorkers == {"worker_1", "worker_2"}
LockShell == "shell"

\* Nobody holds a mutex, the event channels are empty: stats and next_game_id
\* name the holder of each mutex ("" for none), tourney_stats_ch and
\* schedule_update_ch count the events not yet received, pc is where each
\* task stands, pending how many updates the shell's call has yet to send.
NewHeld ==
    [stats |-> "", next_game_id |-> "", tourney_stats_ch |-> 0, schedule_update_ch |-> 0,
     pc |-> [t \in LockWorkers \cup {LockShell} |-> "idle"], pending |-> 0]

\* The locals of a play_game_static call that has not started: pc is its
\* position, side and step the engine and the step of the handshake under
\* way, log what has been sent to and awaited from each engine, out the lines
\* the receiver of the move has not read, goes and answered the go commands
\* sent to and the bestmove lines printed by each engine, updates the
\* GameUpdate events sent, result what the call returns, last the move just
\* completed.
NewGame ==
    [pc |-> "idle", variant |-> "standard", options |-> 0, inc |-> 0,
     side |-> "White", step |-> 1, turn |-> "White",
     log |-> [c \in {"White", "Black"} |-> << >>],
     out |-> << >>, stray |-> FALSE,
     goes |-> [c \in {"White", "Black"} |-> 0],
     answered |-> [c \in {"White", "Black"} |-> 0],
     white_time |-> 0, black_time |-> 0, moves |-> 0,
     updates |-> << >>, result |-> None, failed |-> FALSE, last |-> None,
     how |-> "", report |-> None, credit |-> None]

\* ------------------------------------------------------- configuration
\* The tournaments explored: one or two games of a match to start with, under
\* each kind of concurrency setting (absent, zero, one, two).
Configs ==
    {[mode |-> "Match", games_count |-> 0, swap_sides |-> FALSE, concurrency |-> Some(0),
      resume_state_path |-> None, resume_from_state |-> FALSE, disabled_engine_ids |-> {}],
     [mode |-> "Match", games_count |-> 2, swap_sides |-> TRUE, concurrency |-> Some(1),
      resume_state_path |-> None, resume_from_state |-> FALSE, disabled_engine_ids |-> {}],
     [mode |-> "Match", games_count |-> 2, swap_sides |-> TRUE, concurrency |-> Some(2),
      resume_state_path |-> None, resume_from_state |-> FALSE, disabled_engine_ids |-> {}],
     [mode |-> "Gauntlet", games_count |-> 1, swap_sides |-> FALSE, concurrency |-> None,
      resume_state_path |-> None, resume_from_state |-> FALSE, disabled_engine_ids |-> {}]}

\* Arbiter::new for a configuration out of `configs`.
Start(configs) ==
    /\ config \in configs
    /\ schedule_queue = << >>
    /\ pairing_states =
         LET pairings == generate_pairings(config.mode, NumEngines)
         IN [p \in 1 .. Len(pairings) |->
                [idx_a |-> pairings[p][1], idx_b |-> pairings[p][2],
                 next_game_idx |-> 0]]
    /\ remaining_rounds = Max(config.games_count, 1)
    /\ next_game_id = 0
    /\ disabled_engine_ids = config.disabled_engine_ids
    /\ engine_spawn_failures = [e \in Engines |-> 0]
    /\ should_stop = FALSE
    /\ is_paused = FALSE
    /\ active_engines = {}
    /\ tourney_stats = NewStats
    /\ permits = 0
    /\ join_set = {}
    /\ apc = "init"
    /\ urr = [pc |-> "idle", k |-> 0, out |-> << >>]
    /\ sched = [id \in GameIds |-> << >>]
    /\ errors = {}
    /\ credited = [id \in GameIds |-> << >>]
    /\ totalFails = [e \in Engines |-> 0]
    /\ dispatched = ZeroPairs
    /\ dispatchedSince = ZeroPairs
    /\ stoppedActive = {}
    /\ stoppedOpen = {}
    /\ spawnTried = {}
    /\ spawnFailed = {}
    /\ lastK = 0
    /\ urrRepeat = FALSE
    /\ shellCalls = 0
    /\ schedule_state = [id \in GameIds |-> None]
    /\ files = [path |-> 0, tmp |-> 0]
    /\ inodes = [i \in Inodes |-> None]
    /\ prior = << >>
    /\ writeFailed = FALSE
    /\ engine = NewEngine
    /\ chan = NewChan
    /\ playing = NewGame
    /\ adj = NewAdj
    /\ held = NewHeld

Init == Start(Configs)

uiVars == <<should_stop, is_paused, disabled_engine_ids>>
queueVars == <<schedule_queue, pairing_states, remaining_rounds, next_game_id>>
workerVars == <<engine_spawn_failures, active_engines, tourney_stats, permits,
                join_set, errors, credited, totalFails, spawnTried, spawnFailed>>
ghostUrr == <<lastK, urrRepeat>>
persistVars == <<schedule_state, files, inodes, prior, writeFailed>>
auxVars == <<engine, chan, playing, adj, held>>
arbiterVars == <<config, persistVars, uiVars, queueVars, workerVars, apc, urr, sched,
                 ghostUrr, shellCalls, dispatched, dispatchedSince, stoppedActive,
                 stoppedOpen>>

\* The locked section of update_remaining_rounds(k) with its bookkeeping; the
\* updates are sent afterwards, once the queue lock is dropped.
Adjust(queue, pstates, ngid, k) ==
    LET u == UpdateQueue(queue, pstates, ngid, k)
    IN /\ schedule_queue' = u.queue
       /\ pairing_states' = u.pstates
       /\ next_game_id' = u.next_game_id
       /\ urr' = [pc |-> IF u.out = << >> THEN "idle" ELSE "send", k |-> k,
                  out |-> u.out]
       /\ urrRepeat' = (apc # "init" /\ lastK = k /\ dispatchedSince = ZeroPairs)
       /\ lastK' = k
       /\ dispatchedSince' = ZeroPairs

\* ------------------------------------------------------- the snapshot
\* TournamentResumeState as persist_tournament_state and persist_resume_state
\* build it: the configuration with its resume flag kept as it is.
SnapshotKeepingFlag(cfg, schedule) ==
    [config |-> cfg, schedule |-> schedule]

\* config.resume_from_state = false; TournamentResumeState { config, schedule }
Snapshot(cfg, schedule) ==
    [config |-> [cfg EXCEPT !.resume_from_state = FALSE], schedule |-> schedule]

\* The inodes a name or an open file still refers to.
Referenced(fs, js) == {fs.path, fs.tmp} \cup {w.fd : w \in js}

\* An inode nothing refers to: the one a newly created file gets.
FreeInode(fs, js) ==
    CHOOSE i \in Inodes \ Referenced(fs, js) :
        \A j \in Inodes \ Referenced(fs, js) : i <= j

\* The bytes of an inode are gone once nothing refers to it.
Reclaim(ins, fs, js) ==
    [i \in Inodes |-> IF i \in Referenced(fs, js) THEN ins[i] ELSE None]

\* The schedule list of a fresh run: a Pending entry for each of games_count
\* games of each pairing, ids counted from one.
InitialSchedule ==
    [id \in GameIds |->
        IF id <= Len(pairing_states) * config.games_count
        THEN Some(ScheduledGame("Pending", None)) ELSE None]

\* compute_game_mapping: the pairing and the ordinal of a game id.
compute_game_mapping(pairings, games_count, game_id) ==
    IF games_count = 0 \/ game_id < 1 THEN None
    ELSE LET index == game_id - 1
             pairing_index == index \div games_count
             game_index == index % games_count
         IN IF pairing_index + 1 > Len(pairings) THEN None
            ELSE Some(<<pairings[pairing_index + 1].idx_a,
                        pairings[pairing_index + 1].idx_b, game_index>>)

\* game_tasks of a resumed run: the entries of the loaded schedule, in order,
\* that have a mapping and are neither Finished nor Aborted.
RECURSIVE GameTasks(_, _)
GameTasks(schedule, id) ==
    IF id \notin GameIds THEN << >>
    ELSE LET m == IF schedule[id] = None THEN None
                  ELSE compute_game_mapping(pairing_states, config.games_count, id)
         IN IF m = None \/ schedule[id][1].state \in {"Finished", "Aborted"}
            THEN GameTasks(schedule, id + 1)
            ELSE <<make_schedule_item(m[1][1], m[1][2], m[1][3], id)>>
                     \o GameTasks(schedule, id + 1)

\* persist_resume_state returns Ok at once when no path is configured.
Persists == config.resume_state_path # None

\* Where run_tournament goes after the schedule is set up: the first write of
\* the snapshot when a path is configured, the dispatch loop otherwise.
AfterSetup == IF Persists THEN "persist" ELSE "loop"

\* run_tournament up to the dispatch loop: semaphore, queue.clear(), ordinals and
\* id counter reset, update_remaining_rounds(remaining_rounds); the schedule
\* state is the list of Pending entries.
RunStart ==
    /\ apc = "init"
    /\ ~config.resume_from_state
    /\ schedule_state' = InitialSchedule
    /\ Adjust(<< >>,
              [p \in DOMAIN pairing_states |->
                  [pairing_states[p] EXCEPT !.next_game_idx = 0]],
              0, remaining_rounds)
    /\ permits' = ConcurrencyCap(config.concurrency)
    /\ apc' = "populate"
    /\ UNCHANGED <<auxVars, config, files, inodes, prior, writeFailed, uiVars, remaining_rounds,
                   engine_spawn_failures,
                   active_engines, tourney_stats, join_set, errors, credited,
                   totalFails, spawnTried, spawnFailed, sched, dispatched,
                   stoppedActive, stoppedOpen, shellCalls>>

\* run_tournament of a resumed tournament: the loaded schedule is sent as it
\* is and its unfinished entries are the games to dispatch.
RunStartResume ==
    /\ apc = "init"
    /\ config.resume_from_state
    /\ sched' = [id \in GameIds |->
                    IF schedule_state[id] = None THEN sched[id]
                    ELSE Append(sched[id], schedule_state[id][1])]
    /\ schedule_queue' = GameTasks(schedule_state, 1)
    /\ pairing_states' = [p \in DOMAIN pairing_states |->
                             [pairing_states[p] EXCEPT !.next_game_idx = 0]]
    /\ next_game_id' = 0
    /\ permits' = ConcurrencyCap(config.concurrency)
    /\ apc' = AfterSetup
    /\ UNCHANGED <<auxVars, config, persistVars, uiVars, remaining_rounds, engine_spawn_failures,
                   active_engines, tourney_stats, join_set, errors, credited,
                   totalFails, spawnTried, spawnFailed, urr, ghostUrr, dispatched,
                   dispatchedSince, stoppedActive, stoppedOpen, shellCalls>>

\* self.persist_tournament_state().await? before the first dispatch: the
\* snapshot is written to <path>.tmp and renamed over <path>.
PersistInitial ==
    /\ apc = "persist"
    /\ LET i == FreeInode(files, join_set)
           fs == [path |-> i, tmp |-> 0]
       IN /\ files' = fs
          /\ inodes' = Reclaim([inodes EXCEPT ![i] =
                                   Some(Snapshot(config, schedule_state))],
                               fs, join_set)
    /\ apc' = "loop"
    /\ UNCHANGED <<auxVars, config, schedule_state, prior, writeFailed, uiVars, queueVars,
                   workerVars, urr, sched, ghostUrr, shellCalls, dispatched,
                   dispatchedSince, stoppedActive, stoppedOpen>>

\* The write or the rename fails: the ? operator returns the error from
\* run_tournament.
PersistInitialFails ==
    /\ apc = "persist"
    /\ writeFailed' = TRUE
    /\ apc' = "failed"
    /\ UNCHANGED <<auxVars, config, schedule_state, files, inodes, prior, uiVars, queueVars,
                   workerVars, urr, sched, ghostUrr, shellCalls, dispatched,
                   dispatchedSince, stoppedActive, stoppedOpen>>

\* A command of the shell (lib.rs) reaching the arbiter.
ShellCall ==
    /\ shellCalls < MaxShellCalls
    /\ shellCalls' = shellCalls + 1

\* update_remaining_rounds(k) called from the shell while the tournament runs:
\* *self.remaining_rounds.lock().await = remaining_rounds, then the call waits
\* for the queue, pairing and id locks.
UpdateRemainingRounds(k) ==
    /\ apc \notin {"init", "populate"}
    /\ urr.pc = "idle"
    /\ ShellCall
    /\ remaining_rounds' = k
    /\ urr' = [pc |-> "lock", k |-> k, out |-> << >>]
    /\ UNCHANGED <<auxVars, config, persistVars, uiVars, schedule_queue, pairing_states, next_game_id,
                   workerVars, apc, sched, ghostUrr, dispatched, dispatchedSince,
                   stoppedActive, stoppedOpen>>

\* The call holds the locks: queued games are counted, removed and added.
UrrAdjust ==
    /\ urr.pc = "lock"
    /\ UpdateQueue(schedule_queue, pairing_states, next_game_id, urr.k).next_game_id
           <= InitialGames + MaxAddedGames
    /\ Adjust(schedule_queue, pairing_states, next_game_id, urr.k)
    /\ UNCHANGED <<auxVars, config, persistVars, uiVars, remaining_rounds, workerVars, apc, sched,
                   dispatched, stoppedActive, stoppedOpen, shellCalls>>

\* self.schedule_update_tx.send(update): Removed updates first, then Pending.
UrrSend ==
    /\ urr.pc = "send"
    /\ LET h == Head(urr.out)
           rest == Tail(urr.out)
       IN /\ sched' = [sched EXCEPT ![h.id] =
                          Append(@, ScheduledGame(h.state, None))]
          /\ urr' = [urr EXCEPT !.pc = IF rest = << >> THEN "idle" ELSE "send",
                                !.out = rest]
          /\ apc' = IF rest = << >> /\ apc = "populate" THEN AfterSetup ELSE apc
    /\ UNCHANGED <<auxVars, config, persistVars, uiVars, queueVars, workerVars, ghostUrr, shellCalls,
                   dispatched, dispatchedSince, stoppedActive, stoppedOpen>>

\* ---------------------------------------------------- schedule updates
TerminalStates == {"Finished", "Aborted", "Skipped", "Removed"}

\* The states of the updates sent for a game, in the order of sending.
States(id) == [i \in 1 .. Len(sched[id]) |-> sched[id][i].state]

TerminalCount(id) ==
    Cardinality({i \in 1 .. Len(sched[id]) : sched[id][i].state \in TerminalStates})

IsTerminal(id) == TerminalCount(id) > 0

Last(s) == s[Len(s)]

\* ---------------------------------------------------------- dispatch
WhiteDisabled(game) == is_engine_disabled(disabled_engine_ids, EngineId(game.white))
BlackDisabled(game) == is_engine_disabled(disabled_engine_ids, EngineId(game.black))

Send(id, update) == sched' = [sched EXCEPT ![id] = Append(@, update)]

\* The colours the worker gives the engines of its game.
WorkerColours(game) ==
    IF config.swap_sides /\ game.game_idx % 2 # 0
    THEN [white |-> game.idx_b, black |-> game.idx_a]
    ELSE [white |-> game.idx_a, black |-> game.idx_b]

\* The opening taken by the ordinal alone.
OpeningIndexByOrdinal(game, len) == game.game_idx % len

\* The index of the opening of a game in a list of len openings:
\* openings[idx % openings.len()], idx = game_idx / 2 with swap_sides.
OpeningIndex(game, len) ==
    (IF config.swap_sides THEN game.game_idx \div 2 ELSE game.game_idx) % len

\* stats.update(&result, white_idx == 0)
Credit(game, result) ==
    /\ tourney_stats' = StatsUpdate(tourney_stats, result, game.white = 0)
    /\ credited' = [credited EXCEPT ![game.id] = Append(@, result)]

\* Skipped update with the forfeit result; statistics take the base result.
SkipDisabled(game) ==
    LET fr == forfeit_result(WhiteDisabled(game), BlackDisabled(game))
    IN /\ Send(game.id, ScheduledGame("Skipped", Some(fr[1])))
       /\ IF fr[2] # None THEN Credit(game, fr[2][1])
                          ELSE UNCHANGED <<tourney_stats, credited>>

Popped(game) ==
    LET p == PairIndex(pairing_states, PairKey(game))
    IN /\ schedule_queue' = Tail(schedule_queue)
       /\ dispatched' = [dispatched EXCEPT ![p] = @ + 1]
       /\ dispatchedSince' = [dispatchedSince EXCEPT ![p] = @ + 1]

\* while join_set.len() < concurrency
JoinSetHasRoom == Cardinality(join_set) < ConcurrencyCap(config.concurrency)

\* loop { if *self.should_stop.lock().await { break; } ...
LoopTop ==
    /\ apc = "loop"
    /\ apc' = IF should_stop THEN "drain" ELSE "fill"
    /\ UNCHANGED <<auxVars, config, persistVars, uiVars, queueVars, workerVars, urr, sched, ghostUrr, shellCalls,
                   dispatched, dispatchedSince, stoppedActive, stoppedOpen>>

\* pop_front, then the disabled check of the dispatcher: Skipped and continue.
DispatchSkip ==
    /\ apc = "fill"
    /\ JoinSetHasRoom
    /\ schedule_queue # << >>
    /\ LET game == Head(schedule_queue)
       IN /\ WhiteDisabled(game) \/ BlackDisabled(game)
          /\ Popped(game)
          /\ SkipDisabled(game)
    /\ UNCHANGED <<auxVars, config, persistVars, uiVars, pairing_states, remaining_rounds, next_game_id,
                   engine_spawn_failures, active_engines, permits, join_set,
                   errors, totalFails, spawnTried, spawnFailed, apc, urr, ghostUrr, shellCalls,
                   stoppedActive, stoppedOpen>>

\* A task of the join set: its game, its position, the locals of its
\* play_game_static call, how that call ended when a forfeit ended it
\* ("timeout", "badmove"), and what its persist call holds.
NewWorker(game) ==
    [game |-> game, pc |-> "start", play |-> NoPlay, how |-> "",
     res |-> None, snap |-> None, fd |-> 0]

\* pop_front, acquire_owned, join_set.spawn.
DispatchSpawn ==
    /\ apc = "fill"
    /\ JoinSetHasRoom
    /\ schedule_queue # << >>
    /\ LET game == Head(schedule_queue)
       IN /\ ~(WhiteDisabled(game) \/ BlackDisabled(game))
          /\ permits > 0
          /\ Popped(game)
          /\ permits' = permits - 1
          /\ join_set' = join_set \cup {NewWorker(game)}
    /\ UNCHANGED <<auxVars, config, persistVars, uiVars, pairing_states, remaining_rounds, next_game_id,
                   engine_spawn_failures, active_engines, tourney_stats, errors,
                   credited, totalFails, spawnTried, spawnFailed, apc, urr, sched, ghostUrr, shellCalls,
                   stoppedActive, stoppedOpen>>

\* The while loop ends (set full or queue empty); then either break, sleep, or
\* join_next.
FillEnd ==
    /\ apc = "fill"
    /\ ~JoinSetHasRoom \/ schedule_queue = << >>
    /\ apc' = IF join_set = {}
              THEN (IF schedule_queue = << >> THEN "drain" ELSE "loop")
              ELSE "join"
    /\ UNCHANGED <<auxVars, config, persistVars, uiVars, queueVars, workerVars, urr, sched, ghostUrr, shellCalls,
                   dispatched, dispatchedSince, stoppedActive, stoppedOpen>>

\* join_set.join_next().await: one finished task leaves the set.
JoinNext ==
    /\ apc = "join"
    /\ \E w \in join_set :
          /\ w.pc = "exit"
          /\ join_set' = join_set \ {w}
    /\ apc' = "loop"
    /\ UNCHANGED <<auxVars, config, persistVars, uiVars, queueVars, engine_spawn_failures, active_engines,
                   tourney_stats, permits, errors, credited, totalFails,
                   spawnTried, spawnFailed, urr, sched, ghostUrr, shellCalls, dispatched, dispatchedSince,
                   stoppedActive, stoppedOpen>>

\* After the loop: when stopped, wait for every remaining task.
DrainJoin ==
    /\ apc = "drain"
    /\ should_stop
    /\ \E w \in join_set :
          /\ w.pc = "exit"
          /\ join_set' = join_set \ {w}
    /\ UNCHANGED <<auxVars, config, persistVars, uiVars, queueVars, engine_spawn_failures, active_engines,
                   tourney_stats, permits, errors, credited, totalFails,
                   spawnTried, spawnFailed, apc, urr, sched, ghostUrr, shellCalls, dispatched,
                   dispatchedSince, stoppedActive, stoppedOpen>>

\* schedule.iter().all(|game| game.state == "Finished" || game.state == "Aborted")
all_done(schedule) ==
    \A id \in GameIds :
        schedule[id] # None => schedule[id][1].state \in {"Finished", "Aborted"}

\* active.clear(); with a snapshot path, remove the file when all_done; Ok(())
RunEnd ==
    /\ apc = "drain"
    /\ ~should_stop \/ join_set = {}
    /\ active_engines' = {}
    /\ apc' = "done"
    /\ IF Persists /\ all_done(schedule_state)
       THEN /\ files' = [files EXCEPT !.path = 0]
            /\ inodes' = Reclaim(inodes, files', join_set)
       ELSE UNCHANGED <<files, inodes>>
    /\ UNCHANGED <<auxVars, config, schedule_state, prior, writeFailed, uiVars, queueVars, engine_spawn_failures, tourney_stats,
                   permits, join_set, errors, credited, totalFails, spawnTried, spawnFailed,
                   urr, sched, ghostUrr, shellCalls, dispatched, dispatchedSince,
                   stoppedActive, stoppedOpen>>

\* ------------------------------------------------------------ workers
\* The task w becomes w2; at "exit" the task is over and its permit is dropped.
Step(w, w2) ==
    /\ join_set' = (join_set \ {w}) \cup {w2}
    /\ permits' = IF w2.pc = "exit" THEN permits + 1 ELSE permits

Goto(w, pc) == Step(w, [w EXCEPT !.pc = pc])

Running(w) == w.pc \in {"spawn_a", "spawn_b", "handshake", "loop", "await"}

\* update_schedule_state: the entry of the id is replaced, or pushed.
update_schedule_state(schedule, id, update) ==
    [schedule EXCEPT ![id] = Some(update)]

\* let _permit = permit; if *should_stop.lock().await { return; }
WorkerStopped(w) ==
    /\ w.pc = "start"
    /\ should_stop
    /\ Goto(w, "exit")
    /\ UNCHANGED <<auxVars, config, persistVars, uiVars, queueVars, engine_spawn_failures, active_engines,
                   tourney_stats, errors, credited, totalFails, spawnTried, spawnFailed, apc,
                   urr, sched, ghostUrr, shellCalls, dispatched, dispatchedSince,
                   stoppedActive, stoppedOpen>>

\* The worker's own disabled check: Skipped and return.
WorkerSkip(w) ==
    /\ w.pc = "start"
    /\ ~should_stop
    /\ WhiteDisabled(w.game) \/ BlackDisabled(w.game)
    /\ SkipDisabled(w.game)
    /\ Goto(w, "exit")
    /\ UNCHANGED <<auxVars, config, persistVars, uiVars, queueVars, engine_spawn_failures, active_engines,
                   errors, totalFails, spawnTried, spawnFailed, apc, urr, ghostUrr, shellCalls, dispatched,
                   dispatchedSince, stoppedActive, stoppedOpen>>

\* Notify Active: the entry of the schedule state and the update.
WorkerActive(w) ==
    /\ w.pc = "start"
    /\ ~should_stop
    /\ ~(WhiteDisabled(w.game) \/ BlackDisabled(w.game))
    /\ schedule_state' = update_schedule_state(schedule_state, w.game.id,
                                               ScheduledGame("Active", None))
    /\ Send(w.game.id, ScheduledGame("Active", None))
    /\ Goto(w, "spawn_a")
    /\ UNCHANGED <<auxVars, config, files, inodes, prior, writeFailed, uiVars, queueVars,
                   engine_spawn_failures, active_engines,
                   tourney_stats, errors, credited, totalFails, spawnTried, spawnFailed, apc,
                   urr, ghostUrr, shellCalls, dispatched, dispatchedSince, stoppedActive, stoppedOpen>>

\* The engine a worker spawns at each of its two spawn steps.
SpawnEngine(w) == IF w.pc = "spawn_a" THEN w.game.idx_a ELSE w.game.idx_b

\* Ok(e) => failures.remove(&key); after the second spawn both handles are
\* pushed to active_engines.
SpawnOk(w) ==
    /\ w.pc \in {"spawn_a", "spawn_b"}
    /\ engine_spawn_failures' = [engine_spawn_failures EXCEPT ![SpawnEngine(w)] = 0]
    /\ active_engines' = IF w.pc = "spawn_b" THEN active_engines \cup {w.game.id}
                         ELSE active_engines
    /\ spawnTried' = spawnTried \cup {w.game.id}
    /\ spawnFailed' = spawnFailed
    /\ Goto(w, IF w.pc = "spawn_a" THEN "spawn_b" ELSE "handshake")
    /\ UNCHANGED <<auxVars, config, persistVars, uiVars, queueVars, tourney_stats, errors, credited,
                   totalFails, apc, urr, sched, ghostUrr, shellCalls, dispatched,
                   dispatchedSince, stoppedActive, stoppedOpen>>

\* The limit test taken strictly.
LimitExceeded(failure_count) == failure_count > ENGINE_SPAWN_FAILURE_LIMIT

\* failure_count >= ENGINE_SPAWN_FAILURE_LIMIT
LimitReached(failure_count) == failure_count >= ENGINE_SPAWN_FAILURE_LIMIT

\* Err(e) => count the failure, disable at the limit when the engine has an
\* id, send the TournamentError, return.
SpawnFail(w) ==
    /\ w.pc \in {"spawn_a", "spawn_b"}
    /\ LET e == SpawnEngine(w)
           failure_count == engine_spawn_failures[e] + 1
           disabled == LimitReached(failure_count) /\ EngineId(e) # None
       IN /\ engine_spawn_failures' = [engine_spawn_failures EXCEPT ![e] = failure_count]
          /\ disabled_engine_ids' = IF disabled
                                    THEN disabled_engine_ids \cup {EngineId(e)[1]}
                                    ELSE disabled_engine_ids
          /\ errors' = errors \cup {[engine |-> e,
                                     failure_count |-> failure_count,
                                     disabled |-> disabled]}
          /\ totalFails' = [totalFails EXCEPT ![e] = @ + 1]
    /\ spawnTried' = spawnTried \cup {w.game.id}
    /\ spawnFailed' = spawnFailed \cup {w.game.id}
    /\ Goto(w, "exit")
    /\ UNCHANGED <<auxVars, config, persistVars, should_stop, is_paused, queueVars, active_engines,
                   tourney_stats, credited, apc, urr, sched, ghostUrr, shellCalls, dispatched,
                   dispatchedSince, stoppedActive, stoppedOpen>>

\* Ok((result, moves)) => the entry of the schedule state, the Finished update,
\* the snapshot, then the statistics and quit.  Without a snapshot path the
\* worker runs through to the end; with one it goes on to write the snapshot
\* and credits the result after that.
Finished(w, result, how) ==
    /\ schedule_state' = update_schedule_state(schedule_state, w.game.id,
                                               ScheduledGame("Finished", Some(result)))
    /\ Send(w.game.id, ScheduledGame("Finished", Some(result)))
    /\ IF Persists
       THEN /\ Step(w, [w EXCEPT !.pc = "persist", !.play = NoPlay,
                                 !.how = how, !.res = Some(result)])
            /\ UNCHANGED <<tourney_stats, credited>>
       ELSE /\ Step(w, [w EXCEPT !.pc = "exit", !.play = NoPlay, !.how = how])
            /\ Credit(w.game, result)
    /\ UNCHANGED <<auxVars, config, files, inodes, prior, writeFailed, uiVars, queueVars,
                   engine_spawn_failures, active_engines,
                   errors, totalFails, spawnTried, spawnFailed, apc, urr, ghostUrr, shellCalls, dispatched,
                   dispatchedSince, stoppedActive, stoppedOpen>>

\* Err(err) => the entry of the schedule state, the Aborted update, the
\* snapshot, quit.
Aborted(w) ==
    /\ schedule_state' = update_schedule_state(schedule_state, w.game.id,
                                               ScheduledGame("Aborted", None))
    /\ Send(w.game.id, ScheduledGame("Aborted", None))
    /\ Step(w, [w EXCEPT !.pc = IF Persists THEN "persist" ELSE "exit",
                         !.play = NoPlay])
    /\ UNCHANGED <<auxVars, config, files, inodes, prior, writeFailed, uiVars, queueVars,
                   engine_spawn_failures, active_engines,
                   tourney_stats, errors, credited, totalFails, spawnTried, spawnFailed, apc,
                   urr, ghostUrr, shellCalls, dispatched, dispatchedSince, stoppedActive, stoppedOpen>>

\* initialize_engine for both sides succeeded; the start position gives the
\* side to move.
HandshakeOk(w, turn) ==
    /\ w.pc = "handshake"
    /\ Step(w, [w EXCEPT !.pc = "loop", !.play = NewPlay(turn)])
    /\ UNCHANGED <<auxVars, config, persistVars, uiVars, queueVars, engine_spawn_failures, active_engines,
                   tourney_stats, errors, credited, totalFails, spawnTried, spawnFailed, apc,
                   urr, sched, ghostUrr, shellCalls, dispatched, dispatchedSince,
                   stoppedActive, stoppedOpen>>

\* uciok or readyok timed out, the stream closed, or a send failed.
HandshakeFail(w) ==
    /\ w.pc = "handshake"
    /\ Aborted(w)

\* Top of the move loop: if *should_stop { return Err("stopped") }
LoopStopped(w) ==
    /\ w.pc = "loop"
    /\ should_stop
    /\ Aborted(w)

\* Insufficient material or game over at the top of the loop.
LoopGameOver(w, result) ==
    /\ w.pc = "loop"
    /\ ~should_stop /\ ~is_paused
    /\ result \in Outcomes(w.play.turn)
    /\ Finished(w, result, "")

\* active_engine.send(..).await? fails: the engine is gone.
LoopSendFail(w) ==
    /\ w.pc = "loop"
    /\ ~should_stop /\ ~is_paused
    /\ Aborted(w)

\* position and go sent; the loop awaits bestmove.
LoopGo(w) ==
    /\ w.pc = "loop"
    /\ ~should_stop /\ ~is_paused
    /\ Goto(w, "await")
    /\ UNCHANGED <<auxVars, config, persistVars, uiVars, queueVars, engine_spawn_failures, active_engines,
                   tourney_stats, errors, credited, totalFails, spawnTried, spawnFailed, apc,
                   urr, sched, ghostUrr, shellCalls, dispatched, dispatchedSince,
                   stoppedActive, stoppedOpen>>

\* bestmove arrived, no adjudication applies, the move is legal and is played:
\* the other side is to move.
AwaitMove(w, score, token, late) ==
    /\ w.pc = "await"
    /\ BestmoveResult(w.play, score, token, late, FALSE) = None
    /\ Step(w, [w EXCEPT !.pc = "loop",
                         !.play = [Counted(w.play, score, late) EXCEPT
                                       !.turn = Opponent(@)]])
    /\ UNCHANGED <<auxVars, config, persistVars, uiVars, queueVars, engine_spawn_failures, active_engines,
                   tourney_stats, errors, credited, totalFails, spawnTried, spawnFailed, apc,
                   urr, sched, ghostUrr, shellCalls, dispatched, dispatchedSince,
                   stoppedActive, stoppedOpen>>

\* bestmove arrived and ends the game: adjudication, repetition, 50 moves, or
\* a move that cannot be played.
AwaitMoveEnds(w, score, token, late, rep) ==
    /\ w.pc = "await"
    /\ LET r == BestmoveResult(w.play, score, token, late, rep)
       IN /\ r # None
          /\ Finished(w, r[1], IF ToMoveOk(token) THEN "" ELSE "badmove")

\* timeout(..) elapsed ("timeout") or the stream closed ("closed"): the side
\* to move forfeits.
AwaitTimeout(w, how) ==
    /\ w.pc = "await"
    /\ how \in {"timeout", "closed"}
    /\ Finished(w, ForfeitBy(w.play.turn), "timeout")

\* ------------------------------------------- persist_resume_state, by steps
\* The worker is inside persist_resume_state.
Persisting(w) == w.pc \in {"persist", "open", "write", "rename"}

\* let schedule = schedule_state.lock().await.clone(); the state to serialise.
PersistClone(w) ==
    /\ w.pc = "persist"
    /\ Step(w, [w EXCEPT !.pc = "open",
                         !.snap = Some(Snapshot(config, schedule_state))])
    /\ UNCHANGED <<auxVars, config, persistVars, uiVars, queueVars, engine_spawn_failures, active_engines,
                   tourney_stats, errors, credited, totalFails, spawnTried, spawnFailed, apc,
                   urr, sched, ghostUrr, shellCalls, dispatched, dispatchedSince,
                   stoppedActive, stoppedOpen>>

\* std::fs::write(&tmp_path, ..) opens <path>.tmp: an existing file is
\* truncated, a missing one is created empty.
PersistOpen(w) ==
    /\ w.pc = "open"
    /\ IF files.tmp # 0
       THEN /\ Step(w, [w EXCEPT !.pc = "write", !.fd = files.tmp])
            /\ inodes' = [inodes EXCEPT ![files.tmp] = None]
            /\ files' = files
       ELSE /\ Inodes \ Referenced(files, join_set) # {}
            /\ LET i == FreeInode(files, join_set)
               IN /\ Step(w, [w EXCEPT !.pc = "write", !.fd = i])
                  /\ inodes' = [inodes EXCEPT ![i] = None]
                  /\ files' = [files EXCEPT !.tmp = i]
    /\ UNCHANGED <<auxVars, config, schedule_state, prior, writeFailed, uiVars, queueVars,
                   engine_spawn_failures, active_engines,
                   tourney_stats, errors, credited, totalFails, spawnTried, spawnFailed, apc,
                   urr, sched, ghostUrr, shellCalls, dispatched, dispatchedSince,
                   stoppedActive, stoppedOpen>>

\* .. writes the serialised state into the file it opened and closes it.
PersistWrite(w) ==
    /\ w.pc = "write"
    /\ Step(w, [w EXCEPT !.pc = "rename", !.fd = 0])
    /\ inodes' = Reclaim([inodes EXCEPT ![w.fd] = w.snap], files, join_set')
    /\ UNCHANGED <<auxVars, config, schedule_state, files, prior, writeFailed, uiVars, queueVars,
                   engine_spawn_failures, active_engines,
                   tourney_stats, errors, credited, totalFails, spawnTried, spawnFailed, apc,
                   urr, sched, ghostUrr, shellCalls, dispatched, dispatchedSince,
                   stoppedActive, stoppedOpen>>

\* std::fs::rename(tmp_path, path): whatever <path>.tmp names now becomes
\* <path>; with no <path>.tmp the rename fails and the error is logged.
PersistRename(w) ==
    /\ w.pc = "rename"
    /\ Step(w, [w EXCEPT !.pc = "after", !.snap = None])
    /\ IF files.tmp = 0
       THEN /\ writeFailed' = TRUE
            /\ UNCHANGED <<files, inodes>>
       ELSE /\ files' = [path |-> files.tmp, tmp |-> 0]
            /\ inodes' = Reclaim(inodes, files', join_set')
            /\ writeFailed' = writeFailed
    /\ UNCHANGED <<auxVars, config, schedule_state, prior, uiVars, queueVars,
                   engine_spawn_failures, active_engines,
                   tourney_stats, errors, credited, totalFails, spawnTried, spawnFailed, apc,
                   urr, sched, ghostUrr, shellCalls, dispatched, dispatchedSince,
                   stoppedActive, stoppedOpen>>

\* The open or the write fails: println!("Failed to persist schedule state"),
\* and the worker goes on.
PersistFails(w) ==
    /\ w.pc \in {"open", "write"}
    /\ Step(w, [w EXCEPT !.pc = "after", !.snap = None, !.fd = 0])
    /\ inodes' = Reclaim(inodes, files, join_set')
    /\ writeFailed' = TRUE
    /\ UNCHANGED <<auxVars, config, schedule_state, files, prior, uiVars, queueVars,
                   engine_spawn_failures, active_engines,
                   tourney_stats, errors, credited, totalFails, spawnTried, spawnFailed, apc,
                   urr, sched, ghostUrr, shellCalls, dispatched, dispatchedSince,
                   stoppedActive, stoppedOpen>>

\* After the snapshot: the result of a finished game goes to the statistics,
\* the engines are quit, the task returns.
WorkerDone(w) ==
    /\ w.pc = "after"
    /\ Step(w, [w EXCEPT !.pc = "exit", !.res = None, !.how = w.how])
    /\ IF w.res # None THEN Credit(w.game, w.res[1])
                       ELSE UNCHANGED <<tourney_stats, credited>>
    /\ UNCHANGED <<auxVars, config, persistVars, uiVars, queueVars, engine_spawn_failures, active_engines,
                   errors, totalFails, spawnTried, spawnFailed, apc,
                   urr, sched, ghostUrr, shellCalls, dispatched, dispatchedSince,
                   stoppedActive, stoppedOpen>>

\* --------------------------------------------------------- the shell
\* Arbiter::stop: set the flag, take and quit every engine in active_engines.
Stop ==
    /\ ShellCall
    /\ should_stop' = TRUE
    /\ active_engines' = {}
    /\ stoppedActive' = stoppedActive \cup {w.game.id : w \in {x \in join_set : Running(x)}}
    /\ stoppedOpen' = stoppedOpen \cup {id \in 1 .. next_game_id : ~IsTerminal(id)}
    /\ UNCHANGED <<auxVars, config, persistVars, is_paused, disabled_engine_ids, queueVars,
                   engine_spawn_failures, tourney_stats, permits, join_set, errors,
                   credited, totalFails, spawnTried, spawnFailed, apc, urr, sched, ghostUrr,
                   dispatched, dispatchedSince>>

\* Arbiter::set_paused
SetPaused(paused) ==
    /\ ShellCall
    /\ is_paused' = paused
    /\ UNCHANGED <<auxVars, config, persistVars, should_stop, disabled_engine_ids, queueVars, workerVars,
                   apc, urr, sched, ghostUrr, dispatched, dispatchedSince,
                   stoppedActive, stoppedOpen>>

\* Arbiter::set_disabled_engine_ids: the set is replaced.
SetDisabled(ids) == ids

SetDisabledEngineIds(ids) ==
    /\ ShellCall
    /\ disabled_engine_ids' = SetDisabled(ids)
    /\ UNCHANGED <<auxVars, config, persistVars, should_stop, is_paused, queueVars, workerVars, apc, urr,
                   sched, ghostUrr, dispatched, dispatchedSince, stoppedActive, stoppedOpen>>

\* resume_match reading an entry of the snapshot: Active becomes Pending
\* with no result.
ReloadEntry(entry) ==
    IF entry # None /\ entry[1].state = "Active"
    THEN Some(ScheduledGame("Pending", None)) ELSE entry

\* resume_match once the previous run_tournament has returned: the snapshot
\* at <path> is read (the command fails when it is missing or does not
\* parse), its Active entries are made Pending, and a new arbiter is built
\* from its configuration with the path and the resume flag set, and is given
\* the schedule.
ResumeMatch ==
    /\ apc \in {"done", "failed"}
    /\ join_set = {}
    /\ Len(prior) < MaxResumes
    /\ files.path # 0
    /\ inodes[files.path] # None
    /\ LET state == inodes[files.path][1]
       IN /\ config' = [state.config EXCEPT !.resume_state_path = Some("path"),
                                            !.resume_from_state = TRUE]
          /\ schedule_state' = [id \in GameIds |-> ReloadEntry(state.schedule[id])]
          /\ prior' = Append(prior, [schedule |-> state.schedule,
                                     stats |-> tourney_stats])
          /\ disabled_engine_ids' = state.config.disabled_engine_ids
          /\ remaining_rounds' = Max(state.config.games_count, 1)
    /\ schedule_queue' = << >>
    /\ pairing_states' = [p \in DOMAIN pairing_states |->
                             [pairing_states[p] EXCEPT !.next_game_idx = 0]]
    /\ next_game_id' = 0
    /\ engine_spawn_failures' = [e \in Engines |-> 0]
    /\ should_stop' = FALSE
    /\ is_paused' = FALSE
    /\ active_engines' = {}
    /\ tourney_stats' = NewStats
    /\ permits' = 0
    /\ apc' = "init"
    /\ urr' = [pc |-> "idle", k |-> 0, out |-> << >>]
    /\ sched' = [id \in GameIds |-> << >>]
    /\ errors' = {}
    /\ credited' = [id \in GameIds |-> << >>]
    /\ totalFails' = [e \in Engines |-> 0]
    /\ dispatched' = ZeroPairs
    /\ dispatchedSince' = ZeroPairs
    /\ stoppedActive' = {}
    /\ stoppedOpen' = {}
    /\ spawnTried' = {}
    /\ spawnFailed' = {}
    /\ writeFailed' = FALSE
    /\ UNCHANGED <<auxVars, join_set, files, inodes, ghostUrr, shellCalls>>

\* resume_match while a tournament runs: the snapshot is read as it stands,
\* stop() is called on the running arbiter, which is not waited for, and the
\* new arbiter takes its place.  The tasks of the old arbiter share nothing
\* but the file with the new one; they are left out from here on.
ResumeWhileRunning ==
    /\ apc \in {"loop", "fill", "join"}
    /\ urr.pc = "idle"
    /\ Len(prior) < MaxResumes
    /\ files.path # 0
    /\ inodes[files.path] # None
    /\ LET state == inodes[files.path][1]
       IN /\ config' = [state.config EXCEPT !.resume_state_path = Some("path"),
                                            !.resume_from_state = TRUE]
          /\ schedule_state' = [id \in GameIds |-> ReloadEntry(state.schedule[id])]
          /\ prior' = Append(prior, [schedule |-> state.schedule,
                                     stats |-> tourney_stats])
          /\ disabled_engine_ids' = state.config.disabled_engine_ids
          /\ remaining_rounds' = Max(state.config.games_count, 1)
    /\ schedule_queue' = << >>
    /\ pairing_states' = [p \in DOMAIN pairing_states |->
                             [pairing_states[p] EXCEPT !.next_game_idx = 0]]
    /\ next_game_id' = 0
    /\ engine_spawn_failures' = [e \in Engines |-> 0]
    /\ should_stop' = FALSE
    /\ is_paused' = FALSE
    /\ active_engines' = {}
    /\ tourney_stats' = NewStats
    /\ permits' = 0
    /\ apc' = "init"
    /\ urr' = [pc |-> "idle", k |-> 0, out |-> << >>]
    /\ sched' = [id \in GameIds |-> << >>]
    /\ errors' = {}
    /\ credited' = [id \in GameIds |-> << >>]
    /\ totalFails' = [e \in Engines |-> 0]
    /\ dispatched' = ZeroPairs
    /\ dispatchedSince' = ZeroPairs
    /\ stoppedActive' = {}
    /\ stoppedOpen' = {}
    /\ spawnTried' = {}
    /\ spawnFailed' = {}
    /\ writeFailed' = FALSE
    /\ join_set' = {}
    /\ inodes' = Reclaim(inodes, files, {})
    /\ UNCHANGED <<auxVars, files, ghostUrr, shellCalls>>

Next ==
    \/ RunStart
    \/ \E k \in 0 .. MaxRounds : UpdateRemainingRounds(k)
    \/ UrrAdjust
    \/ UrrSend
    \/ LoopTop
    \/ DispatchSkip
    \/ DispatchSpawn
    \/ FillEnd
    \/ JoinNext
    \/ DrainJoin
    \/ RunEnd
    \/ \E w \in join_set : WorkerStopped(w)
    \/ \E w \in join_set : WorkerSkip(w)
    \/ \E w \in join_set : WorkerActive(w)
    \/ \E w \in join_set : SpawnOk(w)
    \/ \E w \in join_set : SpawnFail(w)
    \/ \E w \in join_set : HandshakeOk(w, "White")
    \/ \E w \in join_set : HandshakeFail(w)
    \/ \E w \in join_set : LoopStopped(w)
    \/ \E w \in join_set, r \in Results : LoopGameOver(w, r)
    \/ \E w \in join_set : LoopSendFail(w)
    \/ \E w \in join_set : LoopGo(w)
    \/ \E w \in join_set, t \in Tokens : AwaitMove(w, None, t, FALSE)
    \/ \E w \in join_set, t \in Tokens, rep \in BOOLEAN :
          AwaitMoveEnds(w, None, t, FALSE, rep)
    \/ \E w \in join_set, how \in {"timeout", "closed"} : AwaitTimeout(w, how)
    \/ Stop
    \/ \E b \in BOOLEAN : SetPaused(b)
    \/ \E ids \in SUBSET EngineIds : SetDisabledEngineIds(ids)

Spec == Init /\ [][Next]_vars

\* ------------------------------------------------- engines that fail to start
\* A gauntlet of four games, one at a time, in which engines may fail to
\* spawn and a game that gets both engines ends at the handshake; the shell
\* edits the disabled set.  Every action that writes engine_spawn_failures,
\* disabled_engine_ids or the error events is part of it.
SpawnConfigs ==
    {[mode |-> "Gauntlet", games_count |-> 2, swap_sides |-> FALSE, concurrency |-> Some(1),
      resume_state_path |-> None, resume_from_state |-> FALSE, disabled_engine_ids |-> {}]}

InitSpawn == Start(SpawnConfigs)

NextSpawn ==
    \/ RunStart
    \/ UrrSend
    \/ LoopTop
    \/ DispatchSkip
    \/ DispatchSpawn
    \/ FillEnd
    \/ JoinNext
    \/ RunEnd
    \/ \E w \in join_set : WorkerSkip(w)
    \/ \E w \in join_set : WorkerActive(w)
    \/ \E w \in join_set : SpawnOk(w)
    \/ \E w \in join_set : SpawnFail(w)
    \/ \E w \in join_set : HandshakeFail(w)
    \/ \E ids \in SUBSET EngineIds : SetDisabledEngineIds(ids)

SpecSpawn == InitSpawn /\ [][NextSpawn]_vars

\* ------------------------------------------------- tournaments with a snapshot
\* Tournaments that keep a snapshot: two games side by side, one game whose
\* Black is disabled from the start, and three games in a row.  Games end at
\* the top of the move loop or abort at the handshake, engines may fail to
\* spawn, writes of the snapshot may fail, the shell may stop the tournament
\* and resume it from the snapshot once the run has returned.
PersistConfigs ==
    {[mode |-> "Match", games_count |-> 2, swap_sides |-> FALSE, concurrency |-> Some(2),
      resume_state_path |-> Some("path"), resume_from_state |-> FALSE,
      disabled_engine_ids |-> {}],
     [mode |-> "Match", games_count |-> 1, swap_sides |-> FALSE, concurrency |-> Some(1),
      resume_state_path |-> Some("path"), resume_from_state |-> FALSE,
      disabled_engine_ids |-> {1}],
     [mode |-> "Match", games_count |-> 3, swap_sides |-> FALSE, concurrency |-> Some(1),
      resume_state_path |-> Some("path"), resume_from_state |-> FALSE,
      disabled_engine_ids |-> {}]}

InitPersist == Start(PersistConfigs)

NextPersist ==
    \/ RunStart
    \/ RunStartResume
    \/ UrrSend
    \/ PersistInitial
    \/ PersistInitialFails
    \/ LoopTop
    \/ DispatchSkip
    \/ DispatchSpawn
    \/ FillEnd
    \/ JoinNext
    \/ DrainJoin
    \/ RunEnd
    \/ \E w \in join_set : WorkerStopped(w)
    \/ \E w \in join_set : WorkerActive(w)
    \/ \E w \in join_set : SpawnOk(w)
    \/ \E w \in join_set : SpawnFail(w)
    \/ \E w \in join_set : HandshakeOk(w, "White")
    \/ \E w \in join_set : HandshakeFail(w)
    \/ \E w \in join_set : LoopStopped(w)
    \/ \E w \in join_set, r \in Results : LoopGameOver(w, r)
    \/ \E w \in join_set : PersistClone(w)
    \/ \E w \in join_set : PersistOpen(w)
    \/ \E w \in join_set : PersistWrite(w)
    \/ \E w \in join_set : PersistRename(w)
    \/ \E w \in join_set : PersistFails(w)
    \/ \E w \in join_set : WorkerDone(w)
    \/ Stop
    \/ ResumeMatch

SpecPersist == InitPersist /\ [][NextPersist]_vars

\* A match of one game, two at a time, with a snapshot path: the shell may
\* ask for one more round while it runs and may resume it from the snapshot.
ResumeConfigs ==
    {[mode |-> "Match", games_count |-> 1, swap_sides |-> TRUE, concurrency |-> Some(2),
      resume_state_path |-> Some("path"), resume_from_state |-> FALSE,
      disabled_engine_ids |-> {}]}

NextResume ==
    \/ RunStart
    \/ RunStartResume
    \/ UpdateRemainingRounds(1)
    \/ UrrAdjust
    \/ UrrSend
    \/ PersistInitial
    \/ LoopTop
    \/ DispatchSpawn
    \/ FillEnd
    \/ JoinNext
    \/ RunEnd
    \/ \E w \in join_set : WorkerActive(w)
    \/ \E w \in join_set : SpawnOk(w)
    \/ \E w \in join_set : HandshakeOk(w, "White")
    \/ \E w \in join_set, r \in Results : LoopGameOver(w, r)
    \/ \E w \in join_set : PersistClone(w)
    \/ \E w \in join_set : PersistOpen(w)
    \/ \E w \in join_set : PersistWrite(w)
    \/ \E w \in join_set : PersistRename(w)
    \/ \E w \in join_set : WorkerDone(w)
    \/ ResumeWhileRunning

SpecResume == Start(ResumeConfigs) /\ [][NextResume]_vars

\* ------------------------------------------------------ the engine supervisor
\* stdin_tx.send(cmd).await: an error once the supervisor task has dropped
\* the receiver, the command queued otherwise.
Enqueue(e, cmd) ==
    IF e.sup = "ended"
    THEN [e EXCEPT !.calls = @ + 1, !.result = "Err",
                   !.deadAtSend = (e.child = "exited")]
    ELSE [e EXCEPT !.calls = @ + 1, !.result = "Ok", !.stdin_q = Append(@, cmd),
                   !.accepted = @ + 1, !.deadAtSend = (e.child = "exited")]

\* The send waits while the channel is full and its receiver is there.
CanEnqueue(e) == e.sup = "ended" \/ Len(e.stdin_q) < STDIN_CAPACITY

\* AsyncEngine::send
EngineSend ==
    /\ engine.calls < MaxCalls
    /\ CanEnqueue(engine)
    /\ engine' = Enqueue(engine, "cmd")
    /\ UNCHANGED <<arbiterVars, chan, playing, adj, held>>

\* AsyncEngine::quit: send("quit") with its result dropped, then the task
\* that sleeps 500 ms and sends on kill_tx is spawned.
EngineQuit ==
    /\ engine.calls < MaxCalls
    /\ CanEnqueue(engine)
    /\ engine' = [Enqueue(engine, "quit") EXCEPT !.timers = @ + 1, !.quitCalled = TRUE]
    /\ UNCHANGED <<arbiterVars, chan, playing, adj, held>>

\* The 500 ms are over: kill_tx.send(()).await, which fails when the
\* receiver is gone and waits while the one slot of the channel is taken.
TimerFires ==
    /\ engine.timers > 0
    /\ engine.sup = "ended" \/ engine.kill_q = 0
    /\ engine' = [engine EXCEPT !.timers = @ - 1,
                                !.kill_q = IF engine.sup = "ended" THEN @ ELSE 1]
    /\ UNCHANGED <<arbiterVars, chan, playing, adj, held>>

\* The supervisor task leaves its loop: child.kill().await, is_alive = false;
\* its receivers are dropped.
Ended(e) ==
    [e EXCEPT !.sup = "ended", !.child = "exited", !.is_alive = FALSE,
              !.stdin_q = << >>, !.kill_q = 0, !.pipe = << >>]

\* select! takes kill_rx.recv(): child.kill(), break.
SupKill ==
    /\ engine.sup = "select"
    /\ engine.kill_q = 1
    /\ engine' = Ended(engine)
    /\ UNCHANGED <<arbiterVars, chan, playing, adj, held>>

\* select! takes stdin_rx.recv() with a command: the task goes on to write it.
SupTake ==
    /\ engine.sup = "select"
    /\ engine.stdin_q # << >>
    /\ engine' = [engine EXCEPT !.sup = "write"]
    /\ UNCHANGED <<arbiterVars, chan, playing, adj, held>>

\* write_all and flush of the command taken: they return once the pipe has
\* taken the bytes, fail when the child has closed it, and wait otherwise.
SupWrite ==
    /\ engine.sup = "write"
    /\ IF engine.child = "exited"
       THEN engine' = Ended(engine)
       ELSE /\ Len(engine.pipe) < MaxPipe
            /\ engine' = [engine EXCEPT !.sup = "select",
                                        !.pipe = Append(@, Head(engine.stdin_q)),
                                        !.stdin_q = Tail(@),
                                        !.written = @ + 1]
    /\ UNCHANGED <<arbiterVars, chan, playing, adj, held>>

\* select! takes child.wait(), or read_line returning Ok(0): the child has
\* exited, break.
SupChildExited ==
    /\ engine.sup = "select"
    /\ engine.child = "exited"
    /\ engine' = Ended(engine)
    /\ UNCHANGED <<arbiterVars, chan, playing, adj, held>>

\* The child reads a command from its stdin, or exits (on its own, or
\* because it has read quit).
ChildStep(exits) ==
    /\ engine.child = "running"
    /\ IF exits
       THEN engine' = [engine EXCEPT !.child = "exited", !.pipe = << >>]
       ELSE /\ engine.pipe # << >>
            /\ engine' = [engine EXCEPT !.pipe = Tail(@)]
    /\ UNCHANGED <<arbiterVars, chan, playing, adj, held>>

InitEngine == Start(SpawnConfigs)

NextEngine ==
    \/ EngineSend
    \/ EngineQuit
    \/ TimerFires
    \/ SupKill
    \/ SupTake
    \/ SupWrite
    \/ SupChildExited
    \/ \E exits \in BOOLEAN : ChildStep(exits)

\* The runtime runs every task that can run; select! picks among its ready
\* branches at random, so a branch that stays ready again and again is taken.
\* Nothing makes the child read its stdin or exit.
FairEngine ==
    /\ WF_vars(TimerFires)
    /\ SF_vars(SupKill)
    /\ WF_vars(SupTake)
    /\ WF_vars(SupWrite)
    /\ WF_vars(SupChildExited)

SpecEngine == InitEngine /\ [][NextEngine]_vars /\ FairEngine

\* ------------------------------------------------------- stdout_broadcast
\* The supervisor task has read a line of the child and sends it to the
\* channel, whether or not a receiver is waiting; isKey tells the one readyok
\* or bestmove line the receiver is waiting for.
ChanSend(isKey) ==
    /\ chan.behind < MaxLines
    /\ isKey => (chan.keyAt = 0 /\ ~chan.got /\ ~chan.lost)
    /\ chan' = [chan EXCEPT !.behind = @ + 1,
                            !.keyAt = IF isKey THEN 1 ELSE IF @ > 0 THEN @ + 1 ELSE 0]
    /\ UNCHANGED <<arbiterVars, engine, playing, adj, held>>

\* rx.recv().await in the loops of initialize_engine and play_game_static:
\* the channel keeps the newest BROADCAST_CAPACITY lines; a receiver further
\* behind gets Lagged, is moved to the oldest line kept and goes on (continue);
\* otherwise it gets its oldest unread line.
ChanRecv ==
    /\ chan.behind > 0
    /\ ~chan.got
    /\ IF chan.behind > BROADCAST_CAPACITY
       THEN chan' = [chan EXCEPT !.behind = BROADCAST_CAPACITY,
                                 !.lagged = TRUE,
                                 !.lost = @ \/ chan.keyAt > BROADCAST_CAPACITY,
                                 !.keyAt = IF @ > BROADCAST_CAPACITY THEN 0 ELSE @]
       ELSE chan' = [chan EXCEPT !.behind = @ - 1,
                                 !.got = (chan.keyAt = chan.behind),
                                 !.keyAt = IF @ = chan.behind THEN 0 ELSE @]
    /\ UNCHANGED <<arbiterVars, engine, playing, adj, held>>

NextChan ==
    \/ \E isKey \in BOOLEAN : ChanSend(isKey)
    \/ ChanRecv

SpecChan == InitEngine /\ [][NextChan]_vars

\* ------------------------------------------- play_game_static, by moves
\* The repetition test taken strictly.
RepetitionExceeded(repetition_count, halfmove_clock) ==
    repetition_count > REPETITION_LIMIT \/ halfmove_clock >= HALFMOVE_LIMIT

\* *repetition_count >= 3 || halfmove_clock >= 100
RepetitionReached(repetition_count, halfmove_clock) ==
    repetition_count >= REPETITION_LIMIT \/ halfmove_clock >= HALFMOVE_LIMIT

\* if m.is_zeroing() { halfmove_clock = 0 } else { saturating_add(1) }
HalfmoveAfter(halfmove_clock, zeroing) ==
    IF zeroing THEN 0 ELSE halfmove_clock + 1

\* play_game_static up to its loop: the counters at 0, the halfmove clock
\* from the fifth field of the start position, the repetition map seeded with
\* the key of the start position.
AdjBegin(cfg, turn, halfmove) ==
    /\ adj.pc = "idle"
    /\ adj' = [adj EXCEPT !.pc = "play", !.cfg = Some(cfg), !.play = NewPlay(turn),
                          !.start_halfmove = halfmove, !.halfmove_clock = halfmove,
                          !.repetition_counts[StartKey] = 1]
    /\ UNCHANGED <<arbiterVars, engine, chan, playing, held>>

\* One bestmove with a legal move: the counters, the resign and the draw
\* adjudication, then the move is played, the halfmove clock and the
\* repetition count of the new position are updated and tested.
AdjMove(score, zeroing, key) ==
    /\ adj.pc = "play"
    /\ Len(adj.scores) < MaxPlies
    /\ LET move_num == Len(adj.moves_history) \div 2 + 1
           late == move_num >= DRAW_MOVE_NUMBER
           counted == Counted(adj.play, score, late)
           resigned == counted.consec_resign_moves >= RESIGN_MOVES
           drawn == counted.consec_draw_moves >= DRAW_MOVES
           halfmove_clock == HalfmoveAfter(adj.halfmove_clock, zeroing)
           repetition_count == adj.repetition_counts[key] + 1
           rep == RepetitionReached(repetition_count, halfmove_clock)
           r == BestmoveResult(adj.play, score, "legal", late, rep)
           moved == [adj EXCEPT
                        !.scores = Append(@, score),
                        !.moves_history = Append(@, [key |-> key, zeroing |-> zeroing]),
                        !.halfmove_clock = halfmove_clock,
                        !.repetition_counts[key] = repetition_count]
       IN IF resigned \/ drawn
          THEN adj' = [adj EXCEPT !.pc = "done", !.scores = Append(@, score),
                                  !.play = counted, !.result = r,
                                  !.why = IF resigned THEN "resign" ELSE "draw"]
          ELSE IF rep
          THEN adj' = [moved EXCEPT !.pc = "done", !.play = counted, !.result = r,
                                    !.why = "rep"]
          ELSE adj' = [moved EXCEPT !.play = [counted EXCEPT !.turn = Opponent(@)]]
    /\ UNCHANGED <<arbiterVars, engine, chan, playing, held>>

\* The adjudication settings of the tournaments played, each Some(..) in
\* the configuration.
AdjConfigs ==
    {[resign_score |-> 500, resign_move_count |-> 2, draw_score |-> 10,
      draw_move_number |-> 2, draw_move_count |-> 2],
     [resign_score |-> 1000, resign_move_count |-> 5, draw_score |-> 5,
      draw_move_number |-> 40, draw_move_count |-> 20]}

\* The scores an engine reports with a move.
AdjScores == {None, Some(0), Some(600), Some(0 - 600), Some(1500), Some(0 - 1500)}

\* Games of moves that repeat no position, with scores of every kind.
NextAdj ==
    \/ \E cfg \in AdjConfigs, turn \in Colors : AdjBegin(cfg, turn, 0)
    \/ \E sc \in AdjScores : AdjMove(sc, TRUE, Len(adj.moves_history) + 1)

SpecAdj == InitEngine /\ [][NextAdj]_vars

\* Games of moves without a score, from start positions with a young and an
\* old halfmove clock, through positions that come back.
NextRep ==
    \/ \E cfg \in AdjConfigs, h \in {0, HALFMOVE_LIMIT - 2} : AdjBegin(cfg, "White", h)
    \/ \E z \in BOOLEAN, k \in 0 .. 1 : AdjMove(None, z, k)

SpecRep == InitEngine /\ [][NextRep]_vars

\* ------------------------------------------- mutexes and event channels
\* The game of a worker ends: the worker asks for the tourney_stats mutex.
StatsAsk(t) ==
    /\ held.pc[t] = "idle"
    /\ held' = [held EXCEPT !.pc[t] = "lock"]
    /\ UNCHANGED <<arbiterVars, engine, chan, playing, adj>>

\* let mut stats = tourney_stats.lock().await; stats.update(..)
StatsLock(t) ==
    /\ held.pc[t] = "lock"
    /\ held.stats = ""
    /\ held' = [held EXCEPT !.pc[t] = "send", !.stats = t]
    /\ UNCHANGED <<arbiterVars, engine, chan, playing, adj>>

\* let _ = tourney_stats_tx.send(stats.clone()).await; then the block ends
\* and the guard is dropped.  The send waits while the channel is full.
StatsSend(t) ==
    /\ held.pc[t] = "send"
    /\ held.tourney_stats_ch < EVENT_CAPACITY
    /\ held' = [held EXCEPT !.pc[t] = "idle", !.stats = "",
                            !.tourney_stats_ch = @ + 1]
    /\ UNCHANGED <<arbiterVars, engine, chan, playing, adj>>

\* update_remaining_rounds takes the queue, pairing and id mutexes, adjusts
\* the queue and drops the first two: n updates are to be sent.
IdLock(n) ==
    /\ held.pc[LockShell] = "idle"
    /\ held.next_game_id = ""
    /\ held' = [held EXCEPT !.pc[LockShell] = "send", !.next_game_id = LockShell,
                            !.pending = n]
    /\ UNCHANGED <<arbiterVars, engine, chan, playing, adj>>

\* let _ = self.schedule_update_tx.send(update).await, for each update.
IdSend ==
    /\ held.pc[LockShell] = "send"
    /\ held.pending > 0
    /\ held.schedule_update_ch < EVENT_CAPACITY
    /\ held' = [held EXCEPT !.pending = @ - 1, !.schedule_update_ch = @ + 1]
    /\ UNCHANGED <<arbiterVars, engine, chan, playing, adj>>

\* Ok(()): the call returns and the guard of next_game_id is dropped.
IdReturn ==
    /\ held.pc[LockShell] = "send"
    /\ held.pending = 0
    /\ held' = [held EXCEPT !.pc[LockShell] = "idle", !.next_game_id = ""]
    /\ UNCHANGED <<arbiterVars, engine, chan, playing, adj>>

\* The forwarding tasks of the shell receive one event.
EventRecv(stats_event) ==
    /\ IF stats_event
       THEN /\ held.tourney_stats_ch > 0
            /\ held' = [held EXCEPT !.tourney_stats_ch = @ - 1]
       ELSE /\ held.schedule_update_ch > 0
            /\ held' = [held EXCEPT !.schedule_update_ch = @ - 1]
    /\ UNCHANGED <<arbiterVars, engine, chan, playing, adj>>

NextLocks ==
    \/ \E t \in LockWorkers : StatsAsk(t)
    \/ \E t \in LockWorkers : StatsLock(t)
    \/ \E t \in LockWorkers : StatsSend(t)
    \/ IdLock(1)
    \/ IdSend
    \/ IdReturn
    \/ \E e \in BOOLEAN : EventRecv(e)

SpecLocks == InitEngine /\ [][NextLocks]_vars
\* ------------------------------------------- play_game_static, by commands
\* initialize_engine with the wait for readyok left out.
HandshakeScriptNoReady(options, variant) ==
    <<"uci", "uciok">> \o [i \in 1 .. options |-> "setoption"]
        \o (IF variant = "chess960" THEN <<"UCI_Chess960">> ELSE << >>)
        \o <<"isready", "ucinewgame">>

\* initialize_engine: what is sent and what is awaited, in order.
HandshakeScript(options, variant) ==
    <<"uci", "uciok">> \o [i \in 1 .. options |-> "setoption"]
        \o (IF variant = "chess960" THEN <<"UCI_Chess960">> ELSE << >>)
        \o <<"isready", "readyok", "ucinewgame">>

\* (time_left + 5000).max(5000), capped at 24 h.
TimeoutMs(time_left) ==
    LET timeout_ms == Max(time_left + MOVE_BUFFER_MS, MOVE_BUFFER_MS)
    IN IF timeout_ms < MAX_CAP_MS THEN timeout_ms ELSE MAX_CAP_MS

\* The clock without the floor at 0.
ClockAfterUnfloored(time, elapsed, inc) == time - elapsed + inc

\* (time - elapsed).max(0) + inc
ClockAfter(time, elapsed, inc) == Max(time - elapsed, 0) + inc

\* Any line taken as the answer to go.
IsAnswerAnyLine(line) == TRUE

\* line.starts_with("bestmove")
IsAnswer(line) == line.kind = "bestmove"

\* play_game_static is called: the variant, the number of configured
\* options, the time control.
PlayBegin(variant, options, base_ms, inc_ms) ==
    /\ playing.pc = "idle"
    /\ playing' = [playing EXCEPT !.pc = "init", !.variant = variant,
                                  !.options = options, !.inc = inc_ms,
                                  !.white_time = base_ms, !.black_time = base_ms]
    /\ UNCHANGED <<arbiterVars, engine, chan, adj, held>>

\* One step of initialize_engine, for White and then for Black: a command
\* is sent, or uciok or readyok is awaited.  A send that fails, a timeout or
\* a closed stream ends the call with an error.
PlayHandshake(ok) ==
    /\ playing.pc = "init"
    /\ LET script == HandshakeScript(playing.options, playing.variant)
           last == playing.step = Len(script)
       IN IF ok
          THEN playing' = [playing EXCEPT
                              !.log[playing.side] = Append(@, script[playing.step]),
                              !.step = IF last THEN 1 ELSE @ + 1,
                              !.side = IF last THEN "Black" ELSE @,
                              !.pc = IF last /\ playing.side = "Black" THEN "loop" ELSE @]
          ELSE playing' = [playing EXCEPT !.pc = "done", !.result = Some("Err"),
                                          !.failed = TRUE]
    /\ UNCHANGED <<arbiterVars, engine, chan, adj, held>>

\* The GameUpdate sent with the clocks as they are.
GameUpdateNoResult(p, result) ==
    [result |-> None, white_time |-> p.white_time, black_time |-> p.black_time]

GameUpdate(p, result) ==
    [result |-> result, white_time |-> p.white_time, black_time |-> p.black_time]

\* Top of the loop: stop returns Err("stopped"); pause sleeps and comes
\* back; a position that is over ends the game with its result.
PlayLoopTop(result) ==
    /\ playing.pc = "loop"
    /\ IF should_stop
       THEN playing' = [playing EXCEPT !.pc = "done", !.result = Some("Err")]
       ELSE /\ ~is_paused
            /\ playing' = [playing EXCEPT
                               !.pc = "done", !.result = Some(result),
                               !.updates = Append(@, GameUpdate(playing, Some(result)))]
    /\ UNCHANGED <<arbiterVars, engine, chan, adj, held>>

\* The position command is sent to the engine to move and a new receiver
\* is subscribed; a send that fails ends the call with an error.
PlayPosition(ok) ==
    /\ playing.pc = "loop"
    /\ ~should_stop /\ ~is_paused
    /\ playing.moves < MaxMoves
    /\ IF ok
       THEN playing' = [playing EXCEPT !.pc = "go",
                                       !.log[playing.turn] = Append(@, "position"),
                                       !.out = << >>, !.stray = FALSE]
       ELSE playing' = [playing EXCEPT !.pc = "done", !.result = Some("Err")]
    /\ UNCHANGED <<arbiterVars, engine, chan, adj, held>>

\* The go command is sent and the timeout of the move starts.
PlayGo(ok) ==
    /\ playing.pc = "go"
    /\ IF ok
       THEN playing' = [playing EXCEPT !.pc = "await",
                                       !.log[playing.turn] = Append(@, "go"),
                                       !.goes[playing.turn] = @ + 1]
       ELSE playing' = [playing EXCEPT !.pc = "done", !.result = Some("Err")]
    /\ UNCHANGED <<arbiterVars, engine, chan, adj, held>>

\* The engine to move prints a line, which the supervisor task broadcasts:
\* an info line at any time, a bestmove line once for every go it has got.
EngineLine(kind) ==
    /\ playing.pc \in {"go", "await"}
    /\ Len(playing.out) < MaxOut
    /\ kind = "bestmove" =>
           playing.answered[playing.turn] < playing.goes[playing.turn]
    /\ playing' = [playing EXCEPT
                       !.out = Append(@, [kind |-> kind, go |-> playing.goes[playing.turn]]),
                       !.stray = @ \/ playing.pc = "go",
                       !.answered[playing.turn] = IF kind = "bestmove" THEN @ + 1 ELSE @]
    /\ UNCHANGED <<arbiterVars, engine, chan, adj, held>>

\* active_rx.recv() gives the next line.  An info line is read for its
\* score.  The answer ends the wait after elapsed ms: the clock of the mover
\* is updated; then the adjudications, the move and the repetition rules give
\* a result, or none, and the GameUpdate is sent.
PlayRecv(elapsed, result) ==
    /\ playing.pc = "await"
    /\ playing.out # << >>
    /\ LET line == Head(playing.out)
           white == playing.turn = "White"
           time_left == IF white THEN playing.white_time ELSE playing.black_time
           after == ClockAfter(time_left, elapsed, playing.inc)
           moved == [playing EXCEPT
                        !.out = Tail(@),
                        !.white_time = IF white THEN after ELSE @,
                        !.black_time = IF white THEN @ ELSE after,
                        !.last = Some([turn |-> playing.turn, before |-> time_left,
                                       elapsed |-> elapsed,
                                       other_before |-> IF white THEN playing.black_time
                                                        ELSE playing.white_time,
                                       line |-> line,
                                       goes |-> playing.goes[playing.turn],
                                       stray |-> playing.stray])]
       IN IF ~IsAnswer(line)
          THEN playing' = [playing EXCEPT !.out = Tail(@)]
          ELSE /\ elapsed <= TimeoutMs(time_left)
               /\ IF result = None
                  THEN playing' = [moved EXCEPT
                                      !.pc = "loop", !.moves = @ + 1,
                                      !.turn = Opponent(@),
                                      !.updates = Append(@, GameUpdate(moved, None))]
                  ELSE playing' = [moved EXCEPT
                                      !.pc = "done", !.result = result,
                                      !.updates = Append(@, GameUpdate(moved, result))]
    /\ UNCHANGED <<arbiterVars, engine, chan, adj, held>>

\* The timeout of the move elapses ("timeout") or the stream is closed
\* ("closed"): the side to move forfeits, the GameUpdate is sent with the
\* clocks as they are.
PlayTimeout(how) ==
    /\ playing.pc = "await"
    /\ playing' = [playing EXCEPT
                       !.pc = "done", !.result = Some(ForfeitBy(playing.turn)),
                       !.how = how,
                       !.updates = Append(@, GameUpdate(playing,
                                                        Some(ForfeitBy(playing.turn))))]
    /\ UNCHANGED <<arbiterVars, engine, chan, adj, held>>

\* The worker matches on what play_game_static returned: Ok((result, _))
\* gives the Finished schedule update with the result and stats.update with
\* the same result, Err the Aborted schedule update without a result.
PlayReport ==
    /\ playing.pc = "done"
    /\ IF playing.result = Some("Err")
       THEN playing' = [playing EXCEPT
                           !.pc = "reported",
                           !.report = Some(ScheduledGame("Aborted", None))]
       ELSE playing' = [playing EXCEPT
                           !.pc = "reported",
                           !.report = Some(ScheduledGame("Finished", playing.result)),
                           !.credit = playing.result]
    /\ UNCHANGED <<arbiterVars, engine, chan, adj, held>>

\* The time controls and the times a move takes that the games are played
\* with, in ms.
BaseTimes == {3000}
Increments == {0, 1000}
ElapsedTimes == {0, 2000, 3500}

NextPlay ==
    \/ \E v \in {"standard", "chess960"}, o \in 0 .. 1, b \in BaseTimes, i \in Increments :
          PlayBegin(v, o, b, i)
    \/ \E ok \in BOOLEAN : PlayHandshake(ok)
    \/ \E r \in Results : PlayLoopTop(r)
    \/ \E ok \in BOOLEAN : PlayPosition(ok)
    \/ \E ok \in BOOLEAN : PlayGo(ok)
    \/ \E k \in {"info", "bestmove"} : EngineLine(k)
    \/ \E e \in ElapsedTimes, r \in {None} \cup {Some(x) : x \in Results} : PlayRecv(e, r)
    \/ \E how \in {"timeout", "closed"} : PlayTimeout(how)
    \/ PlayReport
    \/ \E paused \in BOOLEAN : SetPaused(paused)
    \/ Stop

SpecPlay == InitEngine /\ [][NextPlay]_vars

\* ------------------------------------------------------------ the statistics
\* TournamentStats::update called with every result and from either side,
\* up to MaxEloGames games.
StatsUpdateCall(result, is_white_engine_a) ==
    /\ tourney_stats.total_games < MaxEloGames
    /\ tourney_stats' = StatsUpdate(tourney_stats, result, is_white_engine_a)
    /\ UNCHANGED <<auxVars, config, persistVars, uiVars, queueVars, engine_spawn_failures,
                   active_engines, permits, join_set, errors, credited, totalFails,
                   spawnTried, spawnFailed, apc, urr, sched, ghostUrr, shellCalls,
                   dispatched, dispatchedSince, stoppedActive, stoppedOpen>>

InitElo == Start(Configs)

NextElo == \E r \in Results, a \in BOOLEAN : StatsUpdateCall(r, a)

SpecElo == InitElo /\ [][NextElo]_vars

\* ------------------------------------------------------- one game at a time
\* A match of two games with colours swapped, or a round robin of one game
\* per pairing, played one game after the other, in which the engines report
\* scores of every kind with their moves, answer with every kind of bestmove
\* token or not at all, and the opening may leave either side to move.
GameConfigs ==
    {[mode |-> "Match", games_count |-> 2, swap_sides |-> TRUE, concurrency |-> Some(1),
      resume_state_path |-> None, resume_from_state |-> FALSE, disabled_engine_ids |-> {}],
     [mode |-> "RoundRobin", games_count |-> 1, swap_sides |-> FALSE, concurrency |-> Some(1),
      resume_state_path |-> None, resume_from_state |-> FALSE, disabled_engine_ids |-> {}]}

InitGame == Start(GameConfigs)

NextGame ==
    \/ RunStart
    \/ UrrSend
    \/ LoopTop
    \/ DispatchSpawn
    \/ FillEnd
    \/ JoinNext
    \/ RunEnd
    \/ \E w \in join_set : WorkerActive(w)
    \/ \E w \in join_set : SpawnOk(w)
    \/ \E w \in join_set, turn \in Colors : HandshakeOk(w, turn)
    \/ \E w \in join_set, r \in Results : LoopGameOver(w, r)
    \/ \E w \in join_set : LoopGo(w)
    \/ \E w \in join_set, sc \in AllScores, t \in Tokens, late \in BOOLEAN :
          AwaitMove(w, sc, t, late)
    \/ \E w \in join_set, sc \in AllScores, t \in Tokens, late \in BOOLEAN,
          rep \in BOOLEAN :
          AwaitMoveEnds(w, sc, t, late, rep)
    \/ \E w \in join_set, how \in {"timeout", "closed"} : AwaitTimeout(w, how)

SpecGame == InitGame /\ [][NextGame]_vars

\* A match of two games played two at a time, stopped or paused from the
\* shell while it runs.
StopConfigs ==
    {[mode |-> "Match", games_count |-> 2, swap_sides |-> TRUE, concurrency |-> Some(2),
      resume_state_path |-> None, resume_from_state |-> FALSE, disabled_engine_ids |-> {}]}

InitStop == Start(StopConfigs)

\* The steps of run_tournament itself.
DispatcherNext ==
    \/ RunStart
    \/ UrrSend
    \/ LoopTop
    \/ DispatchSpawn
    \/ FillEnd
    \/ JoinNext
    \/ DrainJoin
    \/ RunEnd

\* The steps of the tasks of the join set.  Every await of a task ends: a
\* spawn succeeds or fails, a handshake completes or one of its 10 s timeouts
\* expires, a bestmove arrives or the timeout of the move expires.
WorkerNext ==
    \/ \E w \in join_set : WorkerStopped(w)
    \/ \E w \in join_set : WorkerActive(w)
    \/ \E w \in join_set : SpawnOk(w)
    \/ \E w \in join_set : SpawnFail(w)
    \/ \E w \in join_set, turn \in Colors : HandshakeOk(w, turn)
    \/ \E w \in join_set : HandshakeFail(w)
    \/ \E w \in join_set : LoopStopped(w)
    \/ \E w \in join_set, r \in Results : LoopGameOver(w, r)
    \/ \E w \in join_set : LoopSendFail(w)
    \/ \E w \in join_set : LoopGo(w)
    \/ \E w \in join_set, sc \in {None, Some(100)}, t \in {"legal", "illegal"} :
          AwaitMove(w, sc, t, FALSE)
    \/ \E w \in join_set, sc \in {None, Some(100)}, t \in {"legal", "illegal"},
          rep \in BOOLEAN :
          AwaitMoveEnds(w, sc, t, FALSE, rep)
    \/ \E w \in join_set, how \in {"timeout", "closed"} : AwaitTimeout(w, how)

NextStop ==
    \/ DispatcherNext
    \/ WorkerNext
    \/ Stop
    \/ \E paused \in BOOLEAN : SetPaused(paused)

\* The runtime schedules run_tournament and every task of the join set, and
\* timers expire; the shell need not call anything.
FairStop == WF_vars(DispatcherNext) /\ WF_vars(WorkerNext)

SpecStop == InitStop /\ [][NextStop]_vars /\ FairStop

\* =============================================================== properties
\* The positions of a worker between its Active update and its terminal one.
RunningGames == {w \in join_set : Running(w)}

\* Workers whose task has not returned: each holds the permit it was given.
LiveWorkers == {w \in join_set : w.pc # "exit"}

PendingOf(p) == PendingCount(schedule_queue, PairKey(pairing_states[p]))

\* C1: a game that was Active when stop() was called is never reported
\* Finished: its only terminal update is Aborted, and no result of it reaches
\* the statistics.
C1_StoppedGameIsAborted ==
    \A id \in stoppedActive :
        /\ \A i \in 1 .. Len(sched[id]) :
              sched[id][i].state \in TerminalStates => sched[id][i].state = "Aborted"
        /\ credited[id] = << >>

\* C2: once run_tournament has returned and no update is left to send, every
\* game that was announced Pending has exactly one terminal update, and a game
\* that was not terminal when stop() was called has Aborted as that update.
\* Nothing sends an update for such a game afterwards, so a game without its
\* terminal update here never receives one.
C2_EveryGameEnds ==
    (apc = "done" /\ urr.pc = "idle" /\ join_set = {}) =>
        /\ \A id \in GameIds :
              "Pending" \in {sched[id][i].state : i \in 1 .. Len(sched[id])}
                  => TerminalCount(id) = 1
        /\ \A id \in stoppedOpen :
              sched[id] # << >> /\ Last(sched[id]).state = "Aborted"

C4_RepeatedCallChangesNothing ==
    [][(urr.pc = "lock" /\ urr'.pc # "lock" /\ apc # "init"
        /\ urr.k = lastK /\ dispatchedSince = ZeroPairs)
       => /\ UNCHANGED <<schedule_queue, pairing_states, next_game_id, sched>>
          /\ urr'.pc = "idle"
          /\ urr'.out = << >>]_vars

\* The shell repeated the k of the previous call over a queue that holds games.
C4_Witness ==
    /\ urrRepeat
    /\ shellCalls > 0
    /\ urr.pc = "idle"
    /\ lastK > 0
    /\ Len(schedule_queue) = lastK * Len(pairing_states)
    /\ dispatchedSince = ZeroPairs

\* The cap as the claim words it: the configured value, 4 when absent, at least 1.
ClaimedCap ==
    IF config.concurrency = None THEN 4
    ELSE IF config.concurrency[1] < 1 THEN 1 ELSE config.concurrency[1]

\* C5: the running games never outnumber the cap, and every worker that has
\* not returned holds one permit: free permits and live workers add up to the cap.
C5_ConcurrencyCap ==
    apc # "init" =>
        /\ Cardinality(RunningGames) <= ClaimedCap
        /\ permits >= 0
        /\ permits + Cardinality(LiveWorkers) = ClaimedCap

\* The cap binds: as many games run as it allows while another one is queued.
C5_Witness ==
    /\ Cardinality(RunningGames) = ClaimedCap
    /\ permits = 0
    /\ schedule_queue # << >>

\* The orders of update states the claim allows for one game.
ValidPaths ==
    {<<"Pending", "Active", "Finished">>, <<"Pending", "Active", "Aborted">>,
     <<"Pending", "Skipped">>, <<"Pending", "Removed">>}

IsPrefix(s, t) == Len(s) <= Len(t) /\ \A i \in 1 .. Len(s) : s[i] = t[i]

\* C6: the updates sent for a game id so far are the beginning of one of
\* Pending Active Finished, Pending Active Aborted, Pending Skipped and
\* Pending Removed.
C6_UpdateOrder ==
    \A id \in GameIds : \E path \in ValidPaths : IsPrefix(States(id), path)

\* The game of an id that is queued or held by a worker.
GameOf(id) ==
    CHOOSE g \in {schedule_queue[i] : i \in 1 .. Len(schedule_queue)}
                    \cup {w.game : w \in join_set} : g.id = id

HasDisabledId(e) == EngineId(e) # None /\ EngineId(e)[1] \in disabled_engine_ids

\* The base result the claim gives a skipped game.
ClaimedBase(white_disabled, black_disabled) ==
    IF white_disabled /\ black_disabled THEN "1/2-1/2"
    ELSE IF white_disabled THEN "0-1" ELSE "1-0"

ClaimedDisplay(base) ==
    CASE base = "1/2-1/2" -> "1/2-1/2 (forfeit)"
      [] base = "0-1" -> "0-1 (forfeit)"
      [] base = "1-0" -> "1-0 (forfeit)"

\* This step sends a Skipped update for the game.
SkippedNow(id) ==
    /\ sched'[id] # sched[id]
    /\ Last(sched'[id]).state = "Skipped"

\* This step takes the first game off the queue for dispatch.
PoppedNow ==
    /\ schedule_queue # << >>
    /\ schedule_queue' = Tail(schedule_queue)
    /\ dispatched' # dispatched

\* C7: a Skipped update is sent only for a game with a disabled participant,
\* carries the forfeit result of the claim's table, and the base result is
\* credited to the statistics; a game taken off the queue with a disabled
\* participant is skipped on the spot without a worker; no engine is ever
\* spawned for a skipped game.
C7_SkipDisabled ==
    /\ [](\A id \in GameIds :
             "Skipped" \in {sched[id][i].state : i \in 1 .. Len(sched[id])}
                 => id \notin spawnTried)
    /\ [][/\ \A id \in GameIds :
               SkippedNow(id) =>
                  LET g == GameOf(id)
                      wd == HasDisabledId(g.white)
                      bd == HasDisabledId(g.black)
                      base == ClaimedBase(wd, bd)
                  IN /\ wd \/ bd
                     /\ Last(sched'[id]).result = Some(ClaimedDisplay(base))
                     /\ credited'[id] = Append(credited[id], base)
                     /\ tourney_stats' = StatsUpdate(tourney_stats, base, g.white = 0)
                     /\ tourney_stats'.total_games = tourney_stats.total_games + 1
          /\ PoppedNow =>
               LET g == Head(schedule_queue)
               IN (HasDisabledId(g.white) \/ HasDisabledId(g.black))
                     => SkippedNow(g.id) /\ join_set' = join_set]_vars

\* A game whose White alone was disabled was skipped as a win for Black.
C7_Witness ==
    \E id \in GameIds :
        /\ States(id) = <<"Pending", "Skipped">>
        /\ sched[id][2].result = Some("0-1 (forfeit)")
        /\ credited[id] = <<"0-1">>
        /\ id \notin spawnTried

C9_SpawnFailureAborts ==
    \A id \in spawnFailed :
        /\ sched[id] # << >>
        /\ Last(sched[id]).state = "Aborted"
        /\ Last(sched[id]).result = None
        /\ credited[id] = << >>

\* C10: the identifier of an engine that was disabled for its spawn failures
\* is in the disabled set in every later state.
C10_AutoDisabledStays ==
    \A ev \in errors :
        ev.disabled => EngineId(ev.engine)[1] \in disabled_engine_ids

\* The forfeit as the claims word it: White to move gives 0-1, Black to move
\* gives 1-0.
ClaimedForfeit(turn) == IF turn = "White" THEN "0-1" ELSE "1-0"

\* C11: a step in which the wait for bestmove times out or the stream of the
\* side to move closes sends a Finished update (never Aborted) whose result
\* is the win of the other colour and credits that result to the statistics
\* as a decisive game: total_games and one of wins and losses grow by one.
\* A game that ended so has that Finished update as its last one.
C11_TimeoutForfeits ==
    /\ [](\A w \in join_set :
             (w.pc = "exit" /\ w.how = "timeout") =>
                /\ Last(sched[w.game.id]).state = "Finished"
                /\ Last(sched[w.game.id]).result \in {Some("1-0"), Some("0-1")}
                /\ credited[w.game.id] = <<Last(sched[w.game.id]).result[1]>>)
    /\ [][\A w \in join_set, how \in {"timeout", "closed"} :
            AwaitTimeout(w, how) =>
               LET r == ClaimedForfeit(w.play.turn)
                   id == w.game.id
               IN /\ sched'[id] = Append(sched[id], ScheduledGame("Finished", Some(r)))
                  /\ credited'[id] = Append(credited[id], r)
                  /\ tourney_stats'.total_games = tourney_stats.total_games + 1
                  /\ tourney_stats'.draws = tourney_stats.draws
                  /\ tourney_stats'.wins + tourney_stats'.losses
                        = tourney_stats.wins + tourney_stats.losses + 1
                  /\ tourney_stats' = StatsUpdate(tourney_stats, r, w.game.white = 0)]_vars

\* Black, engine A in the second game of the match, let its time run out:
\* the game is Finished 1-0 and counted as a loss of engine A.
C11_Witness ==
    \E w \in join_set :
        /\ w.pc = "exit" /\ w.how = "timeout"
        /\ w.game.white # 0
        /\ States(w.game.id) = <<"Pending", "Active", "Finished">>
        /\ Last(sched[w.game.id]).result = Some("1-0")
        /\ credited[w.game.id] = <<"1-0">>
        /\ tourney_stats.losses >= 1

\* C12: a step in which a bestmove line arrives whose token is not a legal
\* move (an illegal move, the null move, a word that is no move, or no token)
\* ends the game with a Finished update giving the win to the other colour,
\* whatever score came with the move and whatever the adjudication counters
\* hold.
C12_BadMoveForfeits ==
    [][\A w \in join_set, sc \in AllScores, t \in Tokens \ {"legal"},
          late \in BOOLEAN, rep \in BOOLEAN :
          (AwaitMove(w, sc, t, late) \/ AwaitMoveEnds(w, sc, t, late, rep)) =>
              sched'[w.game.id] =
                  Append(sched[w.game.id],
                         ScheduledGame("Finished",
                                       Some(ClaimedForfeit(w.play.turn))))]_vars

\* The number of results handed to the statistics so far.
RECURSIVE CreditsUpTo(_)
CreditsUpTo(id) ==
    IF id = 0 THEN 0 ELSE Len(credited[id]) + CreditsUpTo(id - 1)

\* Exactly one of the three counters grew by one and the others kept their value.
OneCounterGrew ==
    \/ /\ tourney_stats'.wins = tourney_stats.wins + 1
       /\ tourney_stats'.losses = tourney_stats.losses
       /\ tourney_stats'.draws = tourney_stats.draws
    \/ /\ tourney_stats'.wins = tourney_stats.wins
       /\ tourney_stats'.losses = tourney_stats.losses + 1
       /\ tourney_stats'.draws = tourney_stats.draws
    \/ /\ tourney_stats'.wins = tourney_stats.wins
       /\ tourney_stats'.losses = tourney_stats.losses
       /\ tourney_stats'.draws = tourney_stats.draws + 1

\* C13: total_games is the sum of wins, losses and draws and counts the
\* results credited so far; a game whose worker has returned after a Finished
\* update has been credited once; and the step that credits a game, which for
\* a Finished game is the step of its update, adds one to total_games and one
\* to exactly one of wins, losses and draws.
C13_EachFinishedGameCountsOnce ==
    /\ [](/\ tourney_stats.total_games
              = tourney_stats.wins + tourney_stats.losses + tourney_stats.draws
          /\ tourney_stats.total_games = CreditsUpTo(next_game_id)
          /\ \A id \in 1 .. next_game_id :
                (/\ sched[id] # << >>
                 /\ Last(sched[id]).state = "Finished"
                 /\ \A w \in LiveWorkers : w.game.id # id)
                    => Len(credited[id]) = 1)
    /\ [][/\ \A id \in GameIds :
               (sched'[id] # sched[id] /\ Last(sched'[id]).state = "Finished")
                   => /\ credited'[id] = Append(credited[id], Last(sched'[id]).result[1])
                      /\ tourney_stats'.total_games = tourney_stats.total_games + 1
                      /\ OneCounterGrew
          /\ tourney_stats' # tourney_stats
               => /\ tourney_stats'.total_games = tourney_stats.total_games + 1
                  /\ OneCounterGrew]_vars

\* Two games that ran side by side are both Finished, one of them drawn, and
\* both are counted.
C13_Witness ==
    /\ Cardinality({w \in join_set : w.pc = "exit"}) = 2
    /\ \A w \in join_set : sched[w.game.id] # << >>
                             /\ Last(sched[w.game.id]).state = "Finished"
    /\ tourney_stats.total_games = 2
    /\ tourney_stats.draws = 1

\* Engine A, the engine at index 0, won the game with this result.
EngineAWon(game, result) ==
    \/ game.white = 0 /\ result = "1-0"
    \/ game.black = 0 /\ result = "0-1"

EngineALost(game, result) ==
    \/ game.white = 0 /\ result = "0-1"
    \/ game.black = 0 /\ result = "1-0"

\* C14: the step that credits a game adds one to wins exactly when engine A
\* won that game and one to losses exactly when engine A lost it.
C14_CountersFollowEngineA ==
    [][\A id \in GameIds :
          credited'[id] # credited[id] =>
              LET g == GameOf(id)
                  r == Last(credited'[id])
              IN /\ (tourney_stats'.wins = tourney_stats.wins + 1) <=> EngineAWon(g, r)
                 /\ (tourney_stats'.losses = tourney_stats.losses + 1)
                        <=> EngineALost(g, r)]_vars

\* ---------------------------------------------------------------- C15
\* The state an update last gave the game on the schedule channel.
Shown(id) == IF sched[id] = << >> THEN "" ELSE sched[id][Len(sched[id])].state

\* The games of the schedule the resumed run was loaded from.
Scheduled(run) == {id \in GameIds : run.schedule[id] # None}

\* The games the schedule has in the given state.
InState(run, state) == {id \in Scheduled(run) : run.schedule[id][1].state = state}

\* C15: when a tournament of N games is stopped with some games Finished
\* and one game Active and is resumed from its snapshot, the game that was
\* Active is first shown Pending again, and once the resumed run has returned
\* without a stop, a spawn failure, a disabled engine or an abort, every game
\* that was not Finished at the stop is Finished and total_games is N.
C15_ResumeCompletesTheSchedule ==
    (/\ prior # << >>
     /\ apc = "done"
     /\ ~should_stop
     /\ spawnFailed = {}
     /\ disabled_engine_ids = {}
     /\ \A id \in GameIds : Shown(id) # "Aborted") =>
        LET run == prior[Len(prior)]
        IN (InState(run, "Finished") # {} /\ Cardinality(InState(run, "Active")) = 1) =>
              /\ \A id \in InState(run, "Active") : sched[id][1].state = "Pending"
              /\ \A id \in Scheduled(run) \ InState(run, "Finished") :
                    Shown(id) = "Finished"
              /\ tourney_stats.total_games = Cardinality(Scheduled(run))

\* ---------------------------------------------------------------- C16
\* The schedule states written out and not yet complete on disk, and the
\* complete ones on disk.
Serialised ==
    {w.snap : w \in {v \in join_set : v.snap # None}}
        \cup {inodes[i] : i \in {j \in Inodes : inodes[j] # None}}

\* C16: every snapshot written has resume_from_state false whatever the flag
\* of the running configuration is, and resume_match hands the new arbiter the
\* schedule of the file with every Active entry turned into Pending with no
\* result and every other entry as it was, before anything is dispatched.
C16_SnapshotFlagAndReload ==
    /\ [](\A snap \in Serialised : snap[1].config.resume_from_state = FALSE)
    /\ [][Len(prior') > Len(prior) =>
            /\ files.path # 0
            /\ inodes[files.path] # None
            /\ \A id \in GameIds :
                  LET entry == inodes[files.path][1].schedule[id]
                  IN schedule_state'[id] =
                        IF entry = None THEN None
                        ELSE IF entry[1].state = "Active"
                             THEN Some([state |-> "Pending", result |-> None])
                             ELSE entry
            /\ apc' = "init"
            /\ join_set' = {}
            /\ schedule_queue' = << >>]_vars

\* A resumed run, whose configuration has the flag set, has written its
\* first snapshot: the flag in the file is false, and a game the loaded file
\* had as Active is Pending in it.
C16_Witness ==
    /\ prior # << >>
    /\ config.resume_from_state
    /\ apc = "loop"
    /\ files.path # 0
    /\ inodes[files.path] # None
    /\ inodes[files.path][1].config.resume_from_state = FALSE
    /\ \E id \in GameIds :
          /\ prior[1].schedule[id] # None
          /\ prior[1].schedule[id][1].state = "Active"
          /\ inodes[files.path][1].schedule[id] = Some([state |-> "Pending", result |-> None])

\* ---------------------------------------------------------------- C17
\* No write of the snapshot is under way and none has failed.
SnapshotSettled ==
    /\ Persists
    /\ apc \in {"loop", "fill", "join", "drain"}
    /\ ~writeFailed
    /\ \A w \in join_set : ~Persisting(w) /\ w.pc # "after"

\* C17: with a snapshot path configured, once the operation that changed
\* the schedule state has completed the file holds the current schedule
\* state.
C17_SnapshotFollowsSchedule ==
    SnapshotSettled =>
        /\ files.path # 0
        /\ inodes[files.path] # None
        /\ inodes[files.path][1].schedule = schedule_state

\* ---------------------------------------------------------------- C18
\* C18: the file at the snapshot path is absent or holds one complete
\* serialisation, whenever it is read and however many workers persist at
\* once.
C18_SnapshotIsComplete ==
    files.path # 0 => inodes[files.path] # None

\* ---------------------------------------------------------------- C19
Terminal == {"Finished", "Aborted", "Skipped", "Removed"}

\* C19: when run_tournament has returned, the snapshot file is gone if
\* every game of the schedule is Finished, Aborted, Skipped or Removed, and
\* is there if a game is still Pending or Active.
C19_SnapshotDeletedWhenAllTerminal ==
    (Persists /\ apc = "done" /\ ~writeFailed) =>
        (files.path = 0 <=>
            \A id \in GameIds : sched[id] # << >> => Shown(id) \in Terminal)

\* ---------------------------------------------------------------- C20
\* C20: a failed write of the snapshot, the first one included, is logged
\* only: run_tournament returns no error for it and goes on to dispatch the
\* games.
C20_WriteFailureIsOnlyLogged ==
    writeFailed =>
        /\ apc # "failed"
        /\ (apc = "done" /\ ~should_stop) =>
               \A id \in GameIds : sched[id] # << >> => Shown(id) # "Pending"

\* ---------------------------------------------------------------- C26
\* Twice the score, wins + draws / 2, of the record.
Score2 == 2 * tourney_stats.wins + tourney_stats.draws

\* C26: for a record with total_games > 0, a score fraction of 1 gives
\* elo_diff = 1000 and error_margin = 0, a score fraction of 0 gives
\* elo_diff = -1000 and error_margin = 0, and the logarithmic estimate is
\* there only when the score fraction is strictly between 0 and 1.
C26_EloClampedAtTheBoundaries ==
    tourney_stats.total_games > 0 =>
        /\ Score2 = 2 * tourney_stats.total_games =>
              /\ tourney_stats.elo_diff = [kind |-> "clamped", num |-> 1000, den |-> 1]
              /\ tourney_stats.error_margin = 0
        /\ Score2 = 0 =>
              /\ tourney_stats.elo_diff = [kind |-> "clamped", num |-> 0 - 1000, den |-> 1]
              /\ tourney_stats.error_margin = 0
        /\ tourney_stats.elo_diff.kind = "log" =>
              0 < Score2 /\ Score2 < 2 * tourney_stats.total_games

\* Records of several games at both boundaries and in between have been
\* computed: here one of wins only.
C26_Witness ==
    /\ tourney_stats.total_games >= 2
    /\ tourney_stats.wins = tourney_stats.total_games
    /\ tourney_stats.elo_diff.num = 1000

\* ---------------------------------------------------------------- C27
\* C27: for a record whose score fraction is strictly between 0 and 1, the
\* error margin is finite and strictly positive, for a record of draws only
\* too.
C27_MarginIsPositive ==
    (/\ tourney_stats.total_games > 0
     /\ 0 < Score2
     /\ Score2 < 2 * tourney_stats.total_games) =>
        tourney_stats.error_margin > 0

\* ---------------------------------------------------------------- C23
\* C23: after quit() the child is eventually killed and the supervisor task
\* ends with is_alive = false, whether or not the child reacts and whatever
\* the supervisor task was doing, a pending write of a command included.
C23_QuitTerminates ==
    engine.quitCalled ~>
        (engine.child = "exited" /\ engine.sup = "ended" /\ ~engine.is_alive)

\* ---------------------------------------------------------------- C24
\* C24: send() returns an error whenever the child has already exited at the
\* call, and a command it accepted is written to the child: unless the caller
\* itself has asked for the kill, no accepted command is left unwritten when
\* the supervisor task ends.
C24_SendFailsOnDeadChild ==
    /\ engine.result = "Ok" => ~engine.deadAtSend
    /\ (engine.sup = "ended" /\ ~engine.quitCalled) =>
           engine.accepted = engine.written

\* ---------------------------------------------------------------- C25
\* C25: a readyok or bestmove line produced after the consumer subscribed is
\* delivered to it, also when the consumer is up to 10 000 lines behind: no
\* Lagged signal makes it skip that line.
C25_KeyLineIsDelivered ==
    chan.behind <= 10000 => ~chan.lost

\* ---------------------------------------------------------------- C28
\* What has been sent to and awaited from an engine begins with the whole
\* handshake: uci, uciok, a setoption for every configured option, the
\* UCI_Chess960 option for a chess960 game, isready, readyok, ucinewgame.
HandshakeComplete(log) ==
    LET extra == playing.options + (IF playing.variant = "chess960" THEN 1 ELSE 0)
        n == extra + 5
    IN /\ Len(log) >= n
       /\ log[1] = "uci" /\ log[2] = "uciok"
       /\ \A i \in 1 .. playing.options : log[2 + i] = "setoption"
       /\ playing.variant = "chess960" => log[2 + extra] = "UCI_Chess960"
       /\ log[n - 2] = "isready" /\ log[n - 1] = "readyok" /\ log[n] = "ucinewgame"

Requested(log) == \E i \in 1 .. Len(log) : log[i] \in {"position", "go"}

\* C28: no position or go command is sent to either engine of a game before
\* both engines have completed the handshake in order; and a game whose
\* handshake failed has requested no move, has sent no game update and has
\* returned an error, which the worker records as Aborted.
C28_HandshakeBeforeAnyMove ==
    /\ (\E c \in {"White", "Black"} : Requested(playing.log[c])) =>
           \A c \in {"White", "Black"} : HandshakeComplete(playing.log[c])
    /\ playing.failed =>
           /\ playing.result = Some("Err")
           /\ playing.updates = << >>
           /\ \A c \in {"White", "Black"} : ~Requested(playing.log[c])

\* Both engines of a chess960 game with a configured option have been asked
\* for a move.
C28_Witness ==
    /\ playing.variant = "chess960" /\ playing.options = 1
    /\ playing.goes["White"] >= 1 /\ playing.goes["Black"] >= 1

\* ---------------------------------------------------------------- C29
\* C29: the line consumed as the answer of a move is a bestmove line that
\* the engine to move printed after the go command of that move was sent;
\* a line printed earlier is never consumed as the answer.
C29_AnswerFollowsItsGo ==
    playing.last # None =>
        /\ playing.last[1].line.kind = "bestmove"
        /\ playing.last[1].line.go = playing.last[1].goes

\* The second move of an engine was answered although the engine had printed
\* a line between the subscription and the go command.
C29_Witness ==
    /\ playing.last # None
    /\ playing.last[1].stray
    /\ playing.last[1].goes + playing.goes[Opponent(playing.last[1].turn)] >= 2

\* ---------------------------------------------------------------- C30
\* C30: after a completed move the clock of the mover is at least 0 and at
\* most its clock before the move, less the elapsed time, plus the
\* increment, for every elapsed time the timeout allows; the clock of the
\* other side is unchanged.
C30_ClockBounds ==
    playing.last # None =>
        LET m == playing.last[1]
            after == IF m.turn = "White" THEN playing.white_time ELSE playing.black_time
            other == IF m.turn = "White" THEN playing.black_time ELSE playing.white_time
        IN /\ 0 <= after
           /\ after <= m.before - m.elapsed + playing.inc
           /\ other = m.other_before

\* C30 as amended: after a completed move the clock of the mover is at least
\* 0 and at most max(clock before - elapsed, 0) + increment, for every
\* elapsed time the timeout allows; the clock of the other side is unchanged.
C30_ClockBoundsFloored ==
    playing.last # None =>
        LET m == playing.last[1]
            after == IF m.turn = "White" THEN playing.white_time ELSE playing.black_time
            other == IF m.turn = "White" THEN playing.black_time ELSE playing.white_time
        IN /\ 0 <= after
           /\ after <= Max(m.before - m.elapsed, 0) + playing.inc
           /\ other = m.other_before

\* A move was completed that took longer than the clock of the mover had.
C30_Witness ==
    /\ playing.last # None
    /\ playing.last[1].elapsed > playing.last[1].before
    /\ playing.pc = "loop"

\* ---------------------------------------------------------------- C22
\* C22: while the pause flag stays set no game update of a started game is sent, also for a
\* game whose engine was searching when the flag was set, and the clocks of
\* the game stay as they are; a stop during the pause ends the call with the
\* error that the worker records as Aborted.
C22_NoUpdateWhilePaused ==
    [][(is_paused /\ is_paused' /\ playing.pc # "idle") =>
          /\ playing'.updates = playing.updates
          /\ playing'.white_time = playing.white_time
          /\ playing'.black_time = playing.black_time
          /\ (should_stop /\ playing'.pc = "done") => playing'.result = Some("Err")]_vars

\* ---------------------------------------------------------------- C21
\* C21: once stop() has been called the dispatch loop spawns no further
\* worker, and eventually every worker has exited and has been joined, no
\* engine is left in active_engines and run_tournament has returned,
\* whatever the games were doing when Stop arrived.
C21_StopEndsTheRun ==
    /\ [][should_stop => \A w \in join_set' : w.pc = "start" => w \in join_set]_vars
    /\ should_stop ~> (apc = "done" /\ join_set = {} /\ active_engines = {})

\* ---------------------------------------------------------------- C31
\* C31: when the side to move forfeits by the timeout of the move, the last
\* game update of the game, the one with the result, reports the clock of
\* that side as 0.
C31_TimeoutReportsClockZero ==
    playing.how = "timeout" =>
        LET final == playing.updates[Len(playing.updates)]
        IN /\ final.result = Some(ForfeitBy(playing.turn))
           /\ (IF playing.turn = "White" THEN final.white_time
                                        ELSE final.black_time) = 0

\* ---------------------------------------------------------------- C32
\* The number of consecutive moves, up to the last, whose reported score is
\* beyond the configured resign score; a move without a score leaves it.
RECURSIVE ResignStreak(_, _)
ResignStreak(scores, cfg) ==
    IF scores = << >> THEN 0
    ELSE LET before == ResignStreak(SubSeq(scores, 1, Len(scores) - 1), cfg)
             score == scores[Len(scores)]
         IN IF score = None THEN before
            ELSE IF Abs(score[1]) > cfg.resign_score THEN before + 1 ELSE 0

\* C32: a game is adjudicated as decisive exactly when the number of
\* consecutive moves with |score| > adjudication.resign_score reaches
\* adjudication.resign_move_count; the mover wins when the last score is
\* positive, the opponent of the mover when it is negative.
C32_ResignUsesConfiguredThresholds ==
    adj.pc # "idle" =>
        LET cfg == adj.cfg[1]
            streak == ResignStreak(adj.scores, cfg)
            score == adj.scores[Len(adj.scores)]
        IN /\ (adj.why = "resign") <=> (streak >= cfg.resign_move_count)
           /\ adj.why = "resign" =>
                  adj.result = Some(IF score[1] > 0 THEN WinOf(adj.play.turn)
                                                   ELSE ForfeitBy(adj.play.turn))

\* ---------------------------------------------------------------- C33
\* The number of consecutive moves, up to the last, from the configured move
\* number on, whose reported score is within the configured draw score; the
\* i-th bestmove of a game belongs to move (i - 1) \div 2 + 1.
RECURSIVE DrawStreak(_, _)
DrawStreak(scores, cfg) ==
    IF scores = << >> THEN 0
    ELSE LET before == DrawStreak(SubSeq(scores, 1, Len(scores) - 1), cfg)
             score == scores[Len(scores)]
             move_num == (Len(scores) - 1) \div 2 + 1
         IN IF score = None THEN before
            ELSE IF move_num >= cfg.draw_move_number /\ Abs(score[1]) <= cfg.draw_score
                 THEN before + 1 ELSE 0

\* C33: a game that is not adjudicated as decisive is adjudicated 1/2-1/2
\* exactly when |score| <= adjudication.draw_score has held for
\* adjudication.draw_move_count consecutive moves counted from move
\* adjudication.draw_move_number on; never before that move.
C33_DrawUsesConfiguredThresholds ==
    (adj.pc # "idle" /\ adj.why # "resign") =>
        LET cfg == adj.cfg[1]
        IN /\ (adj.why = "draw") <=> (DrawStreak(adj.scores, cfg) >= cfg.draw_move_count)
           /\ adj.why = "draw" =>
                  /\ adj.result = Some("1/2-1/2")
                  /\ (Len(adj.scores) - 1) \div 2 + 1 >= cfg.draw_move_number

\* ---------------------------------------------------------------- C34
\* How often a repetition key has occurred in a game, the start position
\* being the first occurrence of its key.
KeyCount(moves, key) ==
    (IF key = StartKey THEN 1 ELSE 0)
        + Cardinality({i \in 1 .. Len(moves) : moves[i].key = key})

\* The halfmove clock by the rule: 0 after a capture or a pawn move, one more
\* after any other move.
RECURSIVE HalfmoveByRule(_, _)
HalfmoveByRule(start, moves) ==
    IF moves = << >> THEN start
    ELSE IF moves[Len(moves)].zeroing THEN 0
    ELSE HalfmoveByRule(start, SubSeq(moves, 1, Len(moves) - 1)) + 1

\* C34: the halfmove clock follows the rule from the value of the start
\* position; a game is declared 1/2-1/2 right after the move that makes a
\* repetition key occur for the third time or the halfmove clock reach 100,
\* and no game goes on past such a move.
C34_RepetitionAndFiftyMoves ==
    adj.pc # "idle" =>
        LET moves == adj.moves_history
            halfmove == HalfmoveByRule(adj.start_halfmove, moves)
        IN /\ adj.halfmove_clock = halfmove
           /\ adj.pc = "play" =>
                  /\ halfmove < 100
                  /\ \A k \in Keys : KeyCount(moves, k) < 3
           /\ adj.why = "rep" =>
                  /\ adj.result = Some("1/2-1/2")
                  /\ KeyCount(moves, moves[Len(moves)].key) = 3 \/ halfmove = 100
           /\ adj.pc = "done" => adj.why = "rep"

\* A game was drawn by the return, for the second time, to its start
\* position.
C34_Witness ==
    /\ adj.why = "rep"
    /\ adj.moves_history[Len(adj.moves_history)].key = StartKey
    /\ KeyCount(adj.moves_history, StartKey) = 3
    /\ adj.halfmove_clock < 100

\* ---------------------------------------------------------------- C35
\* The games that are queued or played.
GamesAround ==
    {schedule_queue[i] : i \in 1 .. Len(schedule_queue)} \cup {w.game : w \in join_set}

\* C35: with swap_sides the games 2m and 2m+1 of a pairing (a, b) have a and
\* then b as White and both take opening m modulo the length of the list;
\* without it a is White in every game and game i takes opening i modulo
\* the length; the names of the schedule entry are those of the engines
\* that play White and Black.
C35_ColoursAndOpenings ==
    \A g \in GamesAround :
        LET c == WorkerColours(g)
        IN /\ config.swap_sides =>
                  \E m \in 0 .. g.game_idx :
                     /\ \/ g.game_idx = 2 * m /\ c.white = g.idx_a /\ c.black = g.idx_b
                        \/ g.game_idx = 2 * m + 1 /\ c.white = g.idx_b /\ c.black = g.idx_a
                     /\ \A len \in 1 .. MaxOpenings : OpeningIndex(g, len) = m % len
           /\ ~config.swap_sides =>
                  /\ c.white = g.idx_a /\ c.black = g.idx_b
                  /\ \A len \in 1 .. MaxOpenings : OpeningIndex(g, len) = g.game_idx % len
           /\ g.white = c.white /\ g.black = c.black

\* With swap_sides a worker plays the second game of a pairing and a later
\* game of it is queued.
C35_Witness ==
    /\ config.swap_sides
    /\ \E w \in join_set : w.pc = "loop" /\ w.game.game_idx = 1
    /\ \E i \in 1 .. Len(schedule_queue) : schedule_queue[i].game_idx >= 2

\* ---------------------------------------------------------------- C36
\* The queued games that a shrink to k games per pairing keeps: those with
\* fewer than k games of their pairing queued before them.
KeptBy(queue, k) ==
    {i \in 1 .. Len(queue) :
        Cardinality({j \in 1 .. i - 1 : PairKey(queue[j]) = PairKey(queue[i])}) < k}

\* The ids of the Removed updates a call is about to send.
RemovedIn(out) == {out[i].id : i \in {j \in 1 .. Len(out) : out[j].state = "Removed"}}

\* A game that is or was in the hands of the dispatch loop or of a worker.
PoppedGame(id) ==
    \/ \E w \in join_set : w.game.id = id
    \/ \E i \in 1 .. Len(sched[id]) :
          sched[id][i].state \in {"Active", "Finished", "Aborted", "Skipped"}

\* C36: a game reported Removed, or about to be, is never dispatched, and a
\* game popped for dispatch is never reported Removed; a shrink removes of
\* each pairing exactly the games queued last and keeps the others in their
\* order.
C36_AdjustIsAtomic ==
    /\ [](\A id \in GameIds :
            (id \in RemovedIn(urr.out) \/ \E i \in 1 .. Len(sched[id]) :
                                            sched[id][i].state = "Removed")
                => /\ ~PoppedGame(id)
                   /\ \A i \in 1 .. Len(schedule_queue) : schedule_queue[i].id # id)
    /\ [][(urr.pc = "lock" /\ urr'.pc # "lock") =>
             LET kept == KeptBy(schedule_queue, urr.k)
                 n == Cardinality(kept)
             IN /\ Len(schedule_queue') >= n
                /\ SubSeq(schedule_queue', 1, n)
                       = SelectSeq(schedule_queue,
                                   LAMBDA g : \E i \in kept : schedule_queue[i] = g)
                /\ RemovedIn(urr'.out)
                       = {schedule_queue[i].id : i \in (1 .. Len(schedule_queue)) \ kept}]_vars

\* The game a pairing queued last has been reported Removed while an earlier
\* game of the pairing stays queued.
C36_Witness ==
    \E id \in GameIds, i \in 1 .. Len(schedule_queue) :
        /\ \E j \in 1 .. Len(sched[id]) : sched[id][j].state = "Removed"
        /\ schedule_queue[i].id < id
        /\ PairKey(schedule_queue[i]) = <<0, 1>>
        /\ Len(pairing_states) = 1

\* ---------------------------------------------------------------- C37
\* C37: no task waits on a send to a full event channel while it holds the
\* mutex of the statistics or of the game-id counter.
C37_NoMutexHeldAcrossSend ==
    /\ \A t \in LockWorkers :
          (held.pc[t] = "send" /\ held.tourney_stats_ch = EVENT_CAPACITY)
              => held.stats # t
    /\ (held.pc[LockShell] = "send" /\ held.pending > 0
           /\ held.schedule_update_ch = EVENT_CAPACITY)
          => held.next_game_id # LockShell

\* ---------------------------------------------------------------- C38
\* The game-updates of the game that carry a result.
Carrying == {i \in 1 .. Len(playing.updates) : playing.updates[i].result # None}

\* C38: at most one game-update of a game carries a result and it is the
\* last one; a game reported Finished has it, with the result of the
\* Finished schedule update and of the statistics; a game reported Aborted
\* has none.
C38_OneResultLast ==
    /\ Cardinality(Carrying) <= 1
    /\ \A i \in Carrying : i = Len(playing.updates)
    /\ playing.report # None =>
          LET r == playing.report[1]
          IN IF r.state = "Finished"
             THEN /\ Carrying # {}
                  /\ Last(playing.updates).result = r.result
                  /\ playing.credit = r.result
             ELSE Carrying = {} /\ playing.credit = None

\* A game was reported Finished after a move without a result and a move
\* with one.
C38_Witness ==
    /\ playing.report = Some(ScheduledGame("Finished", Some("1/2-1/2")))
    /\ Len(playing.updates) >= 2

\* ---------------------------------------------------------------- C39
\* C39: active_engines holds handles of running games only, hence of no
\* more games than the concurrency cap (two handles a game).
C39_OnlyRunningGames ==
    /\ active_engines \subseteq {w.game.id : w \in RunningGames}
    /\ 2 * Cardinality(active_engines) <= 2 * ConcurrencyCap(config.concurrency)

\* ---------------------------------------------------------------- C40
\* The games of the loaded schedule that are in no terminal state.
OpenInSnapshot ==
    {id \in GameIds : schedule_state[id] # None
                         /\ schedule_state[id][1].state \notin TerminalStates}

\* C40: when a resumed run sets up its schedule, every game of the snapshot
\* that is in no terminal state is queued again under its id.
C40_ResumeKeepsGames ==
    [][(apc = "init" /\ config.resume_from_state /\ apc' # "init") =>
          \A id \in OpenInSnapshot :
              \E i \in 1 .. Len(schedule_queue') : schedule_queue'[i].id = id]_vars

=============================================================================
